---- MODULE Spec2Model ----
(***************************************************************************)
(* A model of the custom-shapes kernel (Shape, Contour, ShapePrimitive and *)
(* its variants, PrimitiveShapeCreators): the build operations, the        *)
(* attach/merge algorithm and the close operations.                        *)
(*                                                                         *)
(* JavaScript arrays are 0-based; TLA+ sequences are 1-based.  Stored      *)
(* locations (contoursIndex, primitivesIndex) and the index argument of    *)
(* endContour keep their 0-based JavaScript values.                        *)
(***************************************************************************)
EXTENDS Integers, Sequences, FiniteSets, TLC

----------------------------------------------------------------------------
(* Bounds of the model *)

MaxContours == 2

MaxVertices == 4

\* the vertices of a shape whose vertices carry differing attribute values
MaxAttributeVertices == 3

\* the vertices of a primitive that is built and added on its own
MaxPrimitiveVertices == 3

\* the vertices of a shape whose vertices are serialized
MaxSerializedVertices == 2

----------------------------------------------------------------------------
(* Values *)

PATH == "PATH"

EMPTY_PATH == "EMPTY_PATH"

TRIANGLE_STRIP == "TRIANGLE_STRIP"

OPEN == "OPEN"

CLOSE == "CLOSE"

INCLUDE == "INCLUDE"

EXCLUDE == "EXCLUDE"

JOIN == "JOIN"

\* kinds a caller passes to beginShape / beginContour
ShapeKinds == {PATH, TRIANGLE_STRIP}

CloseModes == {OPEN, CLOSE}

EndModes == {INCLUDE, EXCLUDE, JOIN}

\* the end-modes a caller configures here; JOIN is the one a self-handled
\* close sets
ConfiguredEndModes == {INCLUDE, EXCLUDE}

\* an absent argument or an absent attribute
Undefined == "undefined"

\* a location that was never stored (null)
Null == -1

Positions == {"p0", "p1"}

TextureCoordinates == {"t0"}

Fills == {"f0", "f1"}

BezierOrders == {2, 3}

Tightnesses == {0, 1}

\* vertexCapacity of SplineSegment and TriangleStrip
Infinity == 1000

Min(a, b) == IF a < b THEN a ELSE b

----------------------------------------------------------------------------
(* State *)

VARIABLES
  contours,          \* Shape.contours: sequence of [kind, primitives]
  vertexProperties,  \* Shape.#vertexProperties: the attribute template
  bezierOrder,       \* Shape.#bezierOrder (its numerical order)
  splineProperties,  \* Shape._splineProperties
  kind,              \* Shape.kind
  creators,          \* PrimitiveShapeCreators.creators
  userVertexProperties,  \* Shape.userVertexProperties: key -> arity
  initialVertexProperties,  \* Shape.#initialVertexProperties: the object it
                            \* refers to
  last               \* the last call: its name, arguments and outcome

vars == <<contours, vertexProperties, bezierOrder, splineProperties, kind,
          creators, userVertexProperties, initialVertexProperties, last>>

----------------------------------------------------------------------------
(* Contour *)

NewContour(shapeKind) == [kind |-> shapeKind, primitives |-> <<>>]

\* a kind getter that never reports EMPTY_PATH
RawContourKind(c) == c.kind

ContourKind(c) ==
  LET isEmpty == Len(c.primitives) = 0
      isPath == c.kind = PATH
  IN IF isEmpty /\ isPath THEN EMPTY_PATH ELSE c.kind

----------------------------------------------------------------------------
(* ShapePrimitive and its variants *)

NewPrimitive(type, order, vertices) ==
  [type |-> type,
   vertices |-> vertices,
   order |-> IF type = "BezierSegment" THEN order ELSE 0,
   ends |-> IF type = "SplineSegment" THEN INCLUDE ELSE "none",
   tightness |-> 0,
   isClosing |-> FALSE,
   contoursIndex |-> Null,
   primitivesIndex |-> Null]

VertexCount(p) == Len(p.vertices)

VertexCapacity(p) ==
  CASE p.type = "Anchor" -> 1
    [] p.type = "LineSegment" -> 1
    [] p.type = "BezierSegment" -> p.order
    [] p.type = "SplineSegment" -> Infinity
    [] p.type = "TriangleStrip" -> Infinity

IsSegment(p) == p.type \in {"LineSegment", "BezierSegment", "SplineSegment"}

\* Shape.at(contoursIndex, primitivesIndex) for indices inside the arrays
At(cs, contoursIndex, primitivesIndex) ==
  cs[contoursIndex + 1].primitives[primitivesIndex + 1]

\* the push of `this` onto the last contour, followed by the bookkeeping at
\* the end of addToShape (the location is read back from the arrays)
Attach(cs, p) ==
  LET n == Len(cs)
      pushed == [cs EXCEPT ![n].primitives = Append(@, p)]
      m == Len(pushed[n].primitives)
  IN [pushed EXCEPT ![n].primitives[m].primitivesIndex = m - 1,
                    ![n].primitives[m].contoursIndex = Len(pushed) - 1]

\* a spare capacity that counts one vertex too many
SpareCapacityOffByOne(lastPrimitive) ==
  VertexCapacity(lastPrimitive) - VertexCount(lastPrimitive) + 1

\* spareCapacity in addToShape
SpareCapacity(lastPrimitive) ==
  VertexCapacity(lastPrimitive) - VertexCount(lastPrimitive)

\* an addToShape that never attaches what did not fit
AddToShapeDroppingRemainder(cs, p) ==
  LET n == Len(cs)
      m == Len(cs[n].primitives)
  IN IF m = 0
     THEN Attach(cs, p)
     ELSE LET lastPrimitive == cs[n].primitives[m]
              k == Min(SpareCapacity(lastPrimitive), Len(p.vertices))
          IN IF lastPrimitive.type = p.type /\ k > 0
             THEN [cs EXCEPT ![n].primitives[m].vertices = @ \o SubSeq(p.vertices, 1, k)]
             ELSE Attach(cs, p)

\* an addToShape that attaches every primitive, never merging
AddToShapeNeverMerging(cs, p) == Attach(cs, p)

AddToShape(cs, p) ==
  LET n == Len(cs)
      lastContour == cs[n]
      m == Len(lastContour.primitives)
  IN IF m = 0
     THEN Attach(cs, p)
     ELSE LET lastPrimitive == lastContour.primitives[m]
              hasSameType == lastPrimitive.type = p.type
              spareCapacity == SpareCapacity(lastPrimitive)
          IN IF hasSameType /\ spareCapacity > 0
             THEN LET k == Min(spareCapacity, Len(p.vertices))
                      pushableVertices == SubSeq(p.vertices, 1, k)
                      remainingVertices == SubSeq(p.vertices, k + 1, Len(p.vertices))
                      merged == [cs EXCEPT ![n].primitives[m].vertices = @ \o pushableVertices]
                  IN IF Len(remainingVertices) > 0
                     THEN Attach(merged, [p EXCEPT !.vertices = remainingVertices])
                     ELSE merged
             ELSE Attach(cs, p)

\* the primitive itself (`this`) once addToShape has returned: the vertices
\* it still holds and the location it stored, if it stored one
AddedPrimitive(cs, p) ==
  LET after == AddToShape(cs, p)
      n == Len(cs)
      m == Len(cs[n].primitives)
      moved == IF m > 0 /\ cs[n].primitives[m].type = p.type
               THEN Min(IF SpareCapacity(cs[n].primitives[m]) > 0
                        THEN SpareCapacity(cs[n].primitives[m]) ELSE 0,
                        Len(p.vertices))
               ELSE 0
      remainingVertices == SubSeq(p.vertices, moved + 1, Len(p.vertices))
      addedToShape == Len(remainingVertices) > 0
  IN [p EXCEPT !.vertices = remainingVertices,
               !.primitivesIndex =
                  IF addedToShape THEN Len(after[n].primitives) - 1 ELSE @,
               !.contoursIndex = IF addedToShape THEN Len(after) - 1 ELSE @]

\* a SplineSegment.addToShape that also hands the shape's spline properties
\* to the segment the vertices were merged into
SplineAddToShapeUpdatingLast(cs, p, sp) ==
  LET after == AddToShape(cs, [p EXCEPT !.ends = sp.ends, !.tightness = sp.tightness])
      n == Len(after)
      m == Len(after[n].primitives)
  IN [after EXCEPT ![n].primitives[m].ends = sp.ends,
                   ![n].primitives[m].tightness = sp.tightness]

\* SplineSegment.addToShape: the new segment takes the shape's spline
\* properties, whether it ends up attached or discarded
SplineAddToShape(cs, p, sp) ==
  AddToShape(cs, [p EXCEPT !.ends = sp.ends, !.tightness = sp.tightness])

\* a handlesClose that accepts any spline, sole segment or not
HandlesCloseAnySpline(cs, p) == p.type = "SplineSegment"

\* SplineSegment.handlesClose; the base class returns false
HandlesClose(cs, p) ==
  /\ p.type = "SplineSegment"
  /\ p.contoursIndex # Null
  /\ LET contour == cs[p.contoursIndex + 1]
     IN Len(contour.primitives) = 2 /\ p.primitivesIndex = 1

----------------------------------------------------------------------------
(* PrimitiveShapeCreators *)

\* creators whose vertex operation starts a path with a LineSegment
CreatorsWithoutAnchor ==
  (<<"vertex", EMPTY_PATH>> :> "LineSegment") @@
  (<<"vertex", PATH>> :> "LineSegment") @@
  (<<"vertex", TRIANGLE_STRIP>> :> "TriangleStrip") @@
  (<<"bezierVertex", EMPTY_PATH>> :> "Anchor") @@
  (<<"bezierVertex", PATH>> :> "BezierSegment") @@
  (<<"splineVertex", EMPTY_PATH>> :> "Anchor") @@
  (<<"splineVertex", PATH>> :> "SplineSegment")

\* the creators the constructor registers
DefaultCreators ==
  (<<"vertex", EMPTY_PATH>> :> "Anchor") @@
  (<<"vertex", PATH>> :> "LineSegment") @@
  (<<"vertex", TRIANGLE_STRIP>> :> "TriangleStrip") @@
  (<<"bezierVertex", EMPTY_PATH>> :> "Anchor") @@
  (<<"bezierVertex", PATH>> :> "BezierSegment") @@
  (<<"splineVertex", EMPTY_PATH>> :> "Anchor") @@
  (<<"splineVertex", PATH>> :> "SplineSegment")

NoCreators == [k \in {} |-> "none"]

----------------------------------------------------------------------------
(* Shape: vertex creation *)

\* a #createVertex that writes the texture coordinates even when the call
\* supplies none
CreateVertexWritingUndefined(vp, position, textureCoordinates) ==
  [vp EXCEPT !.position = position, !.textureCoordinates = textureCoordinates]

\* #createVertex: writes the position (and the texture coordinates when
\* given) into the template; the vertex is a copy of the template
CreateVertex(vp, position, textureCoordinates) ==
  [vp EXCEPT !.position = position,
             !.textureCoordinates =
                IF textureCoordinates # Undefined THEN textureCoordinates ELSE @]

\* #generalVertex: the result is the contours and template it leaves behind,
\* and whether it threw
GeneralVertex(cs, vp, cr, order, sp, vertexKind, position, textureCoordinates) ==
  IF Len(cs) = 0
  THEN [contours |-> cs, vertexProperties |-> vp, failed |-> TRUE]
  ELSE LET lastContourKind == ContourKind(cs[Len(cs)])
           vertex == CreateVertex(vp, position, textureCoordinates)
           key == <<vertexKind, lastContourKind>>
       IN IF key \notin DOMAIN cr
          THEN [contours |-> cs, vertexProperties |-> vertex, failed |-> TRUE]
          ELSE LET primitiveShape == NewPrimitive(cr[key], order, <<vertex>>)
               IN [contours |-> IF primitiveShape.type = "SplineSegment"
                                THEN SplineAddToShape(cs, primitiveShape, sp)
                                ELSE AddToShape(cs, primitiveShape),
                   vertexProperties |-> vertex,
                   failed |-> FALSE]

\* vertex(position, textureCoordinates, {isClosing})
VertexCall(cs, vp, cr, order, sp, position, textureCoordinates, isClosing) ==
  LET r == GeneralVertex(cs, vp, cr, order, sp, "vertex", position, textureCoordinates)
  IN IF r.failed
     THEN r
     ELSE LET n == Len(r.contours)
              m == Len(r.contours[n].primitives)
          IN [r EXCEPT !.contours[n].primitives[m].isClosing = isClosing]

----------------------------------------------------------------------------
(* Initial state: a Shape right after construction *)

\* userVertexProperties before any attribute is registered: null, which the
\* code treats as an object without keys
NoUserVertexProperties == [key \in {} |-> 0]

InitialTemplates ==
  [position : {"p0"}, textureCoordinates : {Undefined}, fill : {"f0"}]

\* the constructor stores its argument, one object, both as
\* #initialVertexProperties and as #vertexProperties: what is written to the
\* template is written to that object
SameObject == [sameObject |-> TRUE, value |-> <<>>]

NoCall == [op |-> "new", closeMode |-> "none", index |-> Null, failed |-> FALSE]

Init ==
  /\ contours = <<>>
  /\ vertexProperties \in InitialTemplates
  /\ bezierOrder = 3
  /\ splineProperties = [tightness |-> 0, ends |-> INCLUDE]
  /\ kind = "null"
  /\ creators = DefaultCreators
  /\ userVertexProperties = NoUserVertexProperties
  /\ initialVertexProperties = SameObject
  /\ last = NoCall

----------------------------------------------------------------------------
(* Shape: container operations *)

\* a beginContour that drops a trailing contour without primitives, whatever
\* its kind
BeginContourDroppingAnyEmpty(cs, shapeKind) ==
  LET kept == IF Len(cs) > 0 /\ Len(cs[Len(cs)].primitives) = 0
              THEN SubSeq(cs, 1, Len(cs) - 1)
              ELSE cs
  IN Append(kept, NewContour(shapeKind))

\* beginContour(shapeKind): drops a trailing contour that reports EMPTY_PATH,
\* then pushes a new contour
BeginContourResult(cs, shapeKind) ==
  LET kept == IF Len(cs) > 0 /\ ContourKind(cs[Len(cs)]) = EMPTY_PATH
              THEN SubSeq(cs, 1, Len(cs) - 1)
              ELSE cs
  IN Append(kept, NewContour(shapeKind))

\* the template the closing vertex is built from: a copy of the template
\* patched with every attribute of the anchor vertex other than position
\* and textureCoordinates
PatchedTemplate(vp, anchorVertex) ==
  [key \in DOMAIN vp \cup DOMAIN anchorVertex |->
     IF key \in DOMAIN anchorVertex /\ key \notin {"position", "textureCoordinates"}
       THEN anchorVertex[key]
       ELSE vp[key]]

\* a restore that puts the removed contours back in front
RestoreContoursInFront(closed, rest) == rest \o closed

\* the contours endContour puts back after emitting the closing vertex
RestoreContours(closed, rest) == closed \o rest

\* a close that leaves the patched copy in place
KeepPatchedTemplate(prevVertexProperties, used) == used

\* the template endContour leaves behind after emitting the closing vertex
RestoreTemplate(prevVertexProperties, used) == prevVertexProperties

\* an isPath that holds for a contour of any kind
EveryContourIsPath(contour) == TRUE

\* isPath in endContour
IsPathContour(contour) == ContourKind(contour) = PATH

\* endContour(closeMode, index): the contours and template it leaves behind,
\* and whether it threw
EndContourResult(cs, vp, cr, order, sp, closeMode, index) ==
  LET same == [contours |-> cs, vertexProperties |-> vp, failed |-> FALSE]
      threw == [contours |-> cs, vertexProperties |-> vp, failed |-> TRUE]
  IN IF closeMode # CLOSE THEN same
     ELSE IF index < 0 \/ index >= Len(cs) THEN threw        \* contour is undefined
     ELSE IF Len(cs[index + 1].primitives) = 0 THEN threw    \* at(index, 0) is undefined
     ELSE
       LET contour == cs[index + 1]
           isPath == IsPathContour(contour)
           anchorVertex == At(cs, index, 0).vertices[1]
           lastSegment == contour.primitives[Len(contour.primitives)]
       IN IF ~isPath THEN same
          ELSE IF HandlesClose(cs, lastSegment)
          THEN [same EXCEPT
                  !.contours[index + 1].primitives[Len(contour.primitives)].ends = JOIN]
          ELSE
            LET rest == SubSeq(cs, index + 2, Len(cs))
                kept == SubSeq(cs, 1, index + 1)
                r == VertexCall(kept, PatchedTemplate(vp, anchorVertex), cr, order, sp,
                                anchorVertex.position,
                                anchorVertex.textureCoordinates, TRUE)
            IN IF r.failed
               THEN r
               ELSE [contours |-> RestoreContours(r.contours, rest),
                     vertexProperties |-> RestoreTemplate(vp, r.vertexProperties),
                     failed |-> FALSE]

RECURSIVE SumVertexCounts(_)
SumVertexCounts(ps) ==
  IF Len(ps) = 0 THEN 0 ELSE VertexCount(Head(ps)) + SumVertexCounts(Tail(ps))

RECURSIVE TotalVertices(_)
TotalVertices(cs) ==
  IF Len(cs) = 0 THEN 0
  ELSE SumVertexCounts(Head(cs).primitives) + TotalVertices(Tail(cs))

\* the model stops growing at MaxContours contours and MaxVertices vertices
WithinBounds(cs) == Len(cs) <= MaxContours /\ TotalVertices(cs) <= MaxVertices

\* the record of a call; the index is kept for CLOSE requests only
Call(op, closeMode, index, failed) ==
  [op |-> op, closeMode |-> closeMode,
   index |-> IF closeMode = CLOSE THEN index ELSE Null, failed |-> failed]

----------------------------------------------------------------------------
(* Attribute values and their serialization *)

\* the elements of a JavaScript array of numbers: a primitive number, a
\* Number object, or undefined (what shift() returns on an empty array)
Num(n) == [kind |-> "number", n |-> n]

NumberObject(n) == [kind |-> "Number", n |-> n]

UndefinedElement == [kind |-> "undefined", n |-> 0]

\* attribute values, by the tests the code applies to them
JsNull == [tag |-> "null", items |-> <<>>]

JsUndefined == [tag |-> "undefined", items |-> <<>>]

JsNumber(n) == [tag |-> "number", items |-> <<Num(n)>>]

JsNumberObject(n) == [tag |-> "Number", items |-> <<NumberObject(n)>>]

JsArray(items) == [tag |-> "Array", items |-> items]

JsVector(x, y, z) == [tag |-> "Vector", items |-> <<x, y, z>>]

\* a value without array(): a string
JsString == [tag |-> "string", items |-> <<>>]

\* new Color(array): a colour of four components
NewColor(array) == [tag |-> "Color", items |-> array]

\* color.array(): the four components
ColorArray(color) == color.items

\* vector.array(): a copy of the three components
VectorArray(vector) == vector.items

\* the value a caller gets when an element of an array is returned as such
ElementValue(e) ==
  CASE e.kind = "number" -> [tag |-> "number", items |-> <<e>>]
    [] e.kind = "Number" -> [tag |-> "Number", items |-> <<e>>]
    [] OTHER -> JsUndefined

\* serializeToArray(val): `instanceof Number` holds for Number objects only
SerializeToArray(val) ==
  IF val.tag \in {"null", "undefined"} THEN [threw |-> FALSE, array |-> <<>>]
  ELSE IF val.tag = "Number" THEN [threw |-> FALSE, array |-> val.items]
  ELSE IF val.tag = "Array" THEN [threw |-> FALSE, array |-> val.items]
  ELSE IF val.tag = "Vector" THEN [threw |-> FALSE, array |-> VectorArray(val)]
  ELSE IF val.tag = "Color" THEN [threw |-> FALSE, array |-> ColorArray(val)]
  ELSE [threw |-> TRUE, array |-> <<>>]

\* count calls of queue.shift(): the elements they return and what is left
Shift(queue, count) ==
  [elements |-> [i \in 1 .. count |->
                   IF i <= Len(queue) THEN queue[i] ELSE UndefinedElement],
   queue |-> SubSeq(queue, count + 1, Len(queue))]

\* hydrateValue(queue, original): the value returned, the queue left behind
\* and the number of shift() calls; no branch throws
HydrateValue(queue, original) ==
  LET count == CASE original.tag = "null" -> 0
                 [] original.tag = "Number" -> 1
                 [] original.tag = "Array" -> Len(original.items)
                 [] original.tag = "Vector" -> 3
                 [] original.tag = "Color" -> 4
                 [] OTHER -> 0
      shifted == Shift(queue, count)
  IN [value |-> CASE original.tag = "null" -> JsNull
                  [] original.tag = "Number" -> ElementValue(shifted.elements[1])
                  [] original.tag = "Array" -> JsArray(shifted.elements)
                  [] original.tag = "Vector" ->
                       JsVector(shifted.elements[1], shifted.elements[2],
                                shifted.elements[3])
                  [] original.tag = "Color" -> NewColor(shifted.elements)
                  [] OTHER -> JsUndefined,
      queue |-> shifted.queue,
      shifts |-> count,
      threw |-> FALSE]

\* the order in which for-in visits the keys
KeyOrder == <<"position", "textureCoordinates", "fill", "aSrc">>

\* the keys of the first loop of vertexToArray / arrayToVertex
TemplateKeys(vp, uvp) ==
  SelectSeq(KeyOrder, LAMBDA key : key \in DOMAIN vp /\ key \notin DOMAIN uvp)

\* the keys of their second loop
UserKeys(uvp) == SelectSeq(KeyOrder, LAMBDA key : key \in DOMAIN uvp)

\* vertex[key]
AttributeOf(vertex, key) ==
  IF key \in DOMAIN vertex THEN vertex[key] ELSE JsUndefined

RECURSIVE SerializeTemplateKeys(_, _)
SerializeTemplateKeys(keys, vertex) ==
  IF Len(keys) = 0 THEN [threw |-> FALSE, array |-> <<>>]
  ELSE LET r == SerializeToArray(AttributeOf(vertex, Head(keys)))
           rest == SerializeTemplateKeys(Tail(keys), vertex)
       IN [threw |-> r.threw \/ rest.threw, array |-> r.array \o rest.array]

RECURSIVE SerializeUserKeys(_, _, _)
SerializeUserKeys(keys, uvp, vertex) ==
  IF Len(keys) = 0 THEN [threw |-> FALSE, array |-> <<>>]
  ELSE LET key == Head(keys)
           r == IF key \in DOMAIN vertex
                THEN SerializeToArray(vertex[key])
                ELSE [threw |-> FALSE, array |-> [i \in 1 .. uvp[key] |-> Num(0)]]
           rest == SerializeUserKeys(Tail(keys), uvp, vertex)
       IN [threw |-> r.threw \/ rest.threw, array |-> r.array \o rest.array]

\* vertexToArray(vertex)
VertexToArray(vp, uvp, vertex) ==
  LET first == SerializeTemplateKeys(TemplateKeys(vp, uvp), vertex)
      second == SerializeUserKeys(UserKeys(uvp), uvp, vertex)
  IN IF first.threw \/ second.threw
     THEN [threw |-> TRUE, array |-> <<>>]
     ELSE [threw |-> FALSE, array |-> first.array \o second.array]

RECURSIVE HydrateKeys(_, _, _)
HydrateKeys(keys, vp, queue) ==
  IF Len(keys) = 0
  THEN [vertex |-> [key \in {} |-> JsUndefined], queue |-> queue, shifts |-> 0]
  ELSE LET key == Head(keys)
           h == HydrateValue(queue, AttributeOf(vp, key))
           rest == HydrateKeys(Tail(keys), vp, h.queue)
       IN [vertex |-> (key :> h.value) @@ rest.vertex,
           queue |-> rest.queue,
           shifts |-> h.shifts + rest.shifts]

\* arrayToVertex(array): the vertex, what is left of the queue and the number
\* of shift() calls
ArrayToVertex(vp, uvp, array) ==
  HydrateKeys(TemplateKeys(vp, uvp) \o UserKeys(uvp), vp, array)

\* vertexPropertyKey(name)
VertexPropertyKey(name) == CASE name = "a" -> "aSrc"

RECURSIVE ShapeVertices(_)
\* every vertex of every primitive of every contour
ShapeVertices(cs) ==
  IF Len(cs) = 0 THEN {}
  ELSE UNION {{Head(cs).primitives[pi].vertices[vi] :
                  vi \in 1 .. Len(Head(cs).primitives[pi].vertices)} :
                pi \in 1 .. Len(Head(cs).primitives)}
       \cup ShapeVertices(Tail(cs))

----------------------------------------------------------------------------
(* SplineSegment: the vertices it starts and ends at, and its warning *)

\* what Array.prototype.at returns outside the array, and the predecessor
\* of a primitive that is in no shape
UndefinedVertex == [undefined |-> TRUE]

UndefinedPrimitive == [type |-> "undefined", vertices |-> <<>>]

NullPrimitive == [type |-> "null", vertices |-> <<>>]

\* Array.prototype.at: a negative index counts from the end
ArrayAt(array, index, missing) ==
  LET i == IF index < 0 THEN Len(array) + index ELSE index
  IN IF i >= 0 /\ i < Len(array) THEN array[i + 1] ELSE missing

\* Segment._previousPrimitive, read at the location the segment stored
PreviousPrimitive(cs, p) ==
  IF p.contoursIndex # Null
    THEN ArrayAt(ArrayAt(cs, p.contoursIndex, NewContour(PATH)).primitives,
                 p.primitivesIndex - 1, UndefinedPrimitive)
    ELSE NullPrimitive

\* ShapePrimitive._nextPrimitive
NextPrimitive(cs, p) ==
  IF p.contoursIndex # Null
    THEN ArrayAt(ArrayAt(cs, p.contoursIndex, NewContour(PATH)).primitives,
                 p.primitivesIndex + 1, UndefinedPrimitive)
    ELSE NullPrimitive

RECURSIVE GetEndVertex(_, _)
\* Segment.getStartVertex
GetStartVertex(cs, p) == GetEndVertex(cs, PreviousPrimitive(cs, p))

\* getEndVertex of Anchor, Segment and SplineSegment
GetEndVertex(cs, p) ==
  CASE p.type = "Anchor" -> ArrayAt(p.vertices, 0, UndefinedVertex)
    [] p.type \in {"LineSegment", "BezierSegment"} ->
         ArrayAt(p.vertices, -1, UndefinedVertex)
    [] p.type = "SplineSegment" ->
         IF p.ends = INCLUDE THEN ArrayAt(p.vertices, -1, UndefinedVertex)
         ELSE IF p.ends = EXCLUDE THEN ArrayAt(p.vertices, -2, UndefinedVertex)
         ELSE GetStartVertex(cs, p)
    [] OTHER -> UndefinedVertex

\* SplineSegment._comesAfterSegment
ComesAfterSegment(cs, p) == IsSegment(PreviousPrimitive(cs, p))

\* SplineSegment.canOverrideAnchor; false in the base class, and next?.
\* gives undefined when there is no next primitive
CanOverrideAnchor(p) == p.type = "SplineSegment" /\ p.ends = EXCLUDE

\* SplineSegment._firstInterpolatedVertex
FirstInterpolatedVertex(cs, p) ==
  IF p.ends = EXCLUDE
    THEN IF ComesAfterSegment(cs, p)
           THEN ArrayAt(p.vertices, 1, UndefinedVertex)
           ELSE ArrayAt(p.vertices, 0, UndefinedVertex)
    ELSE GetStartVertex(cs, p)

\* Vector.equals: the same components
Equals(a, b) == a = b

\* SplineSegment._chainedToSegment
ChainedToSegment(cs, p) ==
  IF p.contoursIndex # Null /\ ComesAfterSegment(cs, p)
    THEN LET interpolatedStartPosition == FirstInterpolatedVertex(cs, p).position
             predecessorEndPosition == GetStartVertex(cs, p).position
         IN Equals(predecessorEndPosition, interpolatedStartPosition)
    ELSE FALSE

NoWarning == [warned |-> FALSE, message |-> <<>>, invoked |-> {}]

\* the console.warn of SplineSegment.addToShape, for the primitive the
\* creator built around the vertex: whether it is written, the two
\* positions its message names, and the Vector methods the check invoked
\* (_chainedToSegment is read last in the condition, and calls equals)
SplineWarning(cs, cr, sp, vertex) ==
  LET built == [NewPrimitive(cr[<<"splineVertex", ContourKind(cs[Len(cs)])>>],
                             0, <<vertex>>)
                  EXCEPT !.ends = sp.ends, !.tightness = sp.tightness]
      after == AddToShape(cs, built)
      this == AddedPrimitive(cs, built)
      verticesPushed == this.contoursIndex = Null
      lastPrimitive == At(after, Len(after) - 1,
                          Len(after[Len(after)].primitives) - 1)
  IN IF built.type # "SplineSegment" \/ built.ends # EXCLUDE
       THEN NoWarning
     ELSE IF /\ verticesPushed
             /\ Len(lastPrimitive.vertices) = 2
             /\ ComesAfterSegment(after, lastPrimitive)
       THEN IF ~ChainedToSegment(after, lastPrimitive)
              THEN [warned |-> TRUE,
                    message |-> <<FirstInterpolatedVertex(after, lastPrimitive).position,
                                  GetStartVertex(after, lastPrimitive).position>>,
                    invoked |-> {"equals"}]
              ELSE [warned |-> FALSE, message |-> <<>>, invoked |-> {"equals"}]
     ELSE NoWarning

----------------------------------------------------------------------------
(* Actions: one per public operation *)

BeginShape(shapeKind) ==
  /\ kind' = shapeKind
  /\ contours' = BeginContourResult(contours, shapeKind)
  /\ WithinBounds(contours')
  /\ last' = Call("beginShape", "none", Null, FALSE)
  /\ UNCHANGED <<initialVertexProperties, userVertexProperties, vertexProperties, bezierOrder, splineProperties, creators>>

\* shapes are always built through beginShape: beginContour comes after it
BeginContour(shapeKind) ==
  /\ kind # "null"
  /\ contours' = BeginContourResult(contours, shapeKind)
  /\ WithinBounds(contours')
  /\ last' = Call("beginContour", "none", Null, FALSE)
  /\ UNCHANGED <<initialVertexProperties, userVertexProperties, vertexProperties, bezierOrder, splineProperties, kind, creators>>

Vertex(position, textureCoordinates) ==
  LET r == VertexCall(contours, vertexProperties, creators, bezierOrder,
                      splineProperties, position, textureCoordinates, FALSE)
  IN /\ contours' = r.contours
     /\ WithinBounds(contours')
     /\ vertexProperties' = r.vertexProperties
     /\ last' = Call("vertex", "none", Null, r.failed)
     /\ UNCHANGED <<initialVertexProperties, userVertexProperties, bezierOrder, splineProperties, kind, creators>>

BezierVertex(position, textureCoordinates) ==
  LET r == GeneralVertex(contours, vertexProperties, creators, bezierOrder,
                         splineProperties, "bezierVertex", position, textureCoordinates)
  IN /\ contours' = r.contours
     /\ WithinBounds(contours')
     /\ vertexProperties' = r.vertexProperties
     /\ last' = Call("bezierVertex", "none", Null, r.failed)
     /\ UNCHANGED <<initialVertexProperties, userVertexProperties, bezierOrder, splineProperties, kind, creators>>

\* splineVertex(position, textureCoordinates); the call is recorded with the
\* warning SplineSegment.addToShape wrote to the console, if it wrote one,
\* and with the Vector methods it invoked on positions
SplineVertex(position, textureCoordinates) ==
  LET r == GeneralVertex(contours, vertexProperties, creators, bezierOrder,
                         splineProperties, "splineVertex", position, textureCoordinates)
      w == IF r.failed THEN NoWarning
           ELSE SplineWarning(contours, creators, splineProperties, r.vertexProperties)
  IN /\ contours' = r.contours
     /\ WithinBounds(contours')
     /\ vertexProperties' = r.vertexProperties
     /\ last' = [op |-> "splineVertex", closeMode |-> "none", index |-> Null,
                 failed |-> r.failed, warned |-> w.warned, message |-> w.message,
                 invoked |-> w.invoked]
     /\ UNCHANGED <<initialVertexProperties, userVertexProperties, bezierOrder, splineProperties, kind, creators>>

BezierOrder(order) ==
  /\ bezierOrder' = order
  /\ last' = Call("bezierOrder", "none", Null, FALSE)
  /\ UNCHANGED <<initialVertexProperties, userVertexProperties, contours, vertexProperties, splineProperties, kind, creators>>

SplineProperty(key, value) ==
  /\ splineProperties' = [splineProperties EXCEPT ![key] = value]
  /\ last' = Call("splineProperty", "none", Null, FALSE)
  /\ UNCHANGED <<initialVertexProperties, userVertexProperties, contours, vertexProperties, bezierOrder, kind, creators>>

\* splineProperties(values) with values for both keys
SplineProperties(ends, tightness) ==
  /\ splineProperties' = [splineProperties EXCEPT !["ends"] = ends,
                                                  !["tightness"] = tightness]
  /\ last' = Call("splineProperties", "none", Null, FALSE)
  /\ UNCHANGED <<initialVertexProperties, userVertexProperties, contours, vertexProperties, bezierOrder, kind, creators>>

\* the setter the constructor installs for the template's fill attribute
Fill(value) ==
  /\ vertexProperties' = [vertexProperties EXCEPT !.fill = value]
  /\ last' = Call("fill", "none", Null, FALSE)
  /\ UNCHANGED <<initialVertexProperties, userVertexProperties, contours, bezierOrder, splineProperties, kind, creators>>

EndContour(closeMode, index) ==
  LET r == EndContourResult(contours, vertexProperties, creators, bezierOrder,
                            splineProperties, closeMode, index)
  IN /\ contours' = r.contours
     /\ WithinBounds(contours')
     /\ vertexProperties' = r.vertexProperties
     /\ last' = Call("endContour", closeMode, index, r.failed)
     /\ UNCHANGED <<initialVertexProperties, userVertexProperties, bezierOrder, splineProperties, kind, creators>>

\* an endShape that closes the last contour instead of the first
EndShapeClosingLastContour(closeMode) ==
  LET r == EndContourResult(contours, vertexProperties, creators, bezierOrder,
                            splineProperties, closeMode, Len(contours) - 1)
  IN /\ contours' = r.contours
     /\ WithinBounds(contours')
     /\ vertexProperties' = r.vertexProperties
     /\ last' = Call("endShape", closeMode, 0, r.failed)
     /\ UNCHANGED <<initialVertexProperties, userVertexProperties, bezierOrder, splineProperties, kind, creators>>

EndShape(closeMode) ==
  LET r == IF closeMode = CLOSE
           THEN EndContourResult(contours, vertexProperties, creators, bezierOrder,
                                 splineProperties, closeMode, 0)
           ELSE [contours |-> contours, vertexProperties |-> vertexProperties,
                 failed |-> FALSE]
  IN /\ contours' = r.contours
     /\ WithinBounds(contours')
     /\ vertexProperties' = r.vertexProperties
     /\ last' = Call("endShape", closeMode, 0, r.failed)
     /\ UNCHANGED <<initialVertexProperties, userVertexProperties, bezierOrder, splineProperties, kind, creators>>

\* PrimitiveShapeCreators.clear() on the creators the shape was given
ClearCreators ==
  /\ creators' = NoCreators
  /\ last' = Call("clear", "none", Null, FALSE)
  /\ UNCHANGED <<initialVertexProperties, userVertexProperties, contours, vertexProperties, bezierOrder, splineProperties, kind>>

\* vertexProperty(name, data)
VertexProperty(name, data) ==
  LET key == VertexPropertyKey(name)
      dataArray == IF data.tag = "Array" THEN data ELSE JsArray(data.items)
      registered == key \in DOMAIN userVertexProperties
                      /\ userVertexProperties[key] # 0
  IN /\ userVertexProperties' =
          IF registered THEN userVertexProperties
          ELSE (key :> Len(dataArray.items)) @@ userVertexProperties
     /\ vertexProperties' = (key :> dataArray) @@ vertexProperties
     /\ last' = Call("vertexProperty", "none", Null, FALSE)
     /\ UNCHANGED <<initialVertexProperties, contours, bezierOrder, splineProperties, kind, creators>>

\* the value of the object #initialVertexProperties refers to
InitialVertexProperties ==
  IF initialVertexProperties.sameObject THEN vertexProperties
  ELSE initialVertexProperties.value

\* reset(): the template becomes a new object, a copy of the initial one; the
\* initial one keeps what was written to it while it was the template
Reset ==
  /\ vertexProperties' = InitialVertexProperties
  /\ initialVertexProperties' =
       [sameObject |-> FALSE, value |-> InitialVertexProperties]
  /\ kind' = "null"
  /\ contours' = <<>>
  /\ userVertexProperties' = NoUserVertexProperties
  /\ last' = Call("reset", "none", Null, FALSE)
  /\ UNCHANGED <<bezierOrder, splineProperties, creators>>

\* a call of serializeToArray(val), and what it returned
CallSerializeToArray(val) ==
  LET r == SerializeToArray(val)
  IN /\ last' = [op |-> "serializeToArray", closeMode |-> "none", index |-> Null,
                 failed |-> r.threw, value |-> val, array |-> r.array]
     /\ UNCHANGED <<initialVertexProperties, contours, vertexProperties, bezierOrder, splineProperties,
                    kind, creators, userVertexProperties>>

\* a call of hydrateValue(queue, original), and what it returned
CallHydrateValue(queue, original) ==
  LET h == HydrateValue(queue, original)
  IN /\ last' = [op |-> "hydrateValue", closeMode |-> "none", index |-> Null,
                 failed |-> h.threw, value |-> original, queue |-> queue,
                 result |-> h.value, shifts |-> h.shifts]
     /\ UNCHANGED <<initialVertexProperties, contours, vertexProperties, bezierOrder, splineProperties,
                    kind, creators, userVertexProperties>>

\* a call of vertexToArray(vertex) on a vertex of the shape
CallVertexToArray(vertex) ==
  LET r == VertexToArray(vertexProperties, userVertexProperties, vertex)
  IN /\ last' = [op |-> "vertexToArray", closeMode |-> "none", index |-> Null,
                 failed |-> r.threw, vertex |-> vertex, array |-> r.array]
     /\ UNCHANGED <<initialVertexProperties, contours, vertexProperties, bezierOrder, splineProperties,
                    kind, creators, userVertexProperties>>

\* a call of arrayToVertex(array) on the array vertexToArray just returned
CallArrayToVertex ==
  /\ last.op = "vertexToArray" /\ ~last.failed
  /\ LET a == ArrayToVertex(vertexProperties, userVertexProperties, last.array)
     IN last' = [op |-> "arrayToVertex", closeMode |-> "none", index |-> Null,
                 failed |-> FALSE, vertex |-> last.vertex, array |-> last.array,
                 result |-> a.vertex, queue |-> a.queue, shifts |-> a.shifts]
  /\ UNCHANGED <<initialVertexProperties, contours, vertexProperties, bezierOrder, splineProperties,
                 kind, creators, userVertexProperties>>

PrimitiveTypes ==
  {"Anchor", "LineSegment", "BezierSegment", "SplineSegment", "TriangleStrip"}

\* the vertices of a primitive built outside the shape: copies of the
\* template at the positions v1, v2, ...
PrimitiveVertices(vp, k) ==
  [i \in 1 .. k |-> [vp EXCEPT !.position = <<"v1", "v2", "v3", "v4">>[i]]]

\* primitive.addToShape(shape) for a primitive a caller built from k vertices
AddPrimitive(type, order, k) ==
  LET p == NewPrimitive(type, order, PrimitiveVertices(vertexProperties, k))
      failed == Len(contours) = 0          \* shape.at(-1) is undefined
  IN /\ contours' = IF failed THEN contours
                    ELSE IF type = "SplineSegment"
                         THEN SplineAddToShape(contours, p, splineProperties)
                         ELSE AddToShape(contours, p)
     /\ WithinBounds(contours')
     /\ last' = [op |-> "addToShape", closeMode |-> "none", index |-> Null,
                 failed |-> failed, primitive |-> p]
     /\ UNCHANGED <<initialVertexProperties, userVertexProperties, vertexProperties, bezierOrder, splineProperties, kind, creators>>

\* the index arguments of endContour: any contour, or the default (the last
\* one, which is -1 when the shape has no contour)
ContourIndices == IF Len(contours) = 0 THEN {-1} ELSE 0 .. Len(contours) - 1

\* the arguments of the build calls when only the structure matters
PlainArguments == {<<"p0", Undefined>>}

\* the arguments of the build calls when the positions matter
PositionArguments == Positions \X {Undefined}

\* the arguments of the build calls when the attribute values matter
VertexArguments == Positions \X ({Undefined} \cup TextureCoordinates)

\* any sequence of build, configuration and close calls on a shape with the
\* default creators
Next ==
  \/ \E k \in ShapeKinds : BeginShape(k)
  \/ \E k \in ShapeKinds : BeginContour(k)
  \/ \E a \in PlainArguments : Vertex(a[1], a[2])
  \/ \E a \in PlainArguments : BezierVertex(a[1], a[2])
  \/ \E a \in PlainArguments : SplineVertex(a[1], a[2])
  \/ \E o \in BezierOrders : BezierOrder(o)
  \/ \E e \in ConfiguredEndModes : SplineProperty("ends", e)
  \/ EndContour(OPEN, Len(contours) - 1)
  \/ \E i \in ContourIndices : EndContour(CLOSE, i)
  \/ \E m \in CloseModes : EndShape(m)

Spec == Init /\ [][Next]_vars

AttributeBound == TotalVertices(contours) <= MaxAttributeVertices

\* PATH contours whose vertices differ in position, texture coordinates and
\* fill
NextAttributes ==
  \/ BeginShape(PATH) /\ AttributeBound'
  \/ BeginContour(PATH) /\ AttributeBound'
  \/ \E a \in VertexArguments : Vertex(a[1], a[2]) /\ AttributeBound'
  \/ \E a \in PlainArguments : SplineVertex(a[1], a[2]) /\ AttributeBound'
  \/ \E f \in Fills : Fill(f)
  \/ EndContour(OPEN, Len(contours) - 1)
  \/ \E i \in ContourIndices : EndContour(CLOSE, i) /\ AttributeBound'
  \/ \E m \in CloseModes : EndShape(m) /\ AttributeBound'

SpecAttributes == Init /\ [][NextAttributes]_vars

\* contours started with vertex calls, to which primitives of one or more
\* vertices add themselves
NextAddToShape ==
  \/ BeginShape(PATH)
  \/ BeginContour(PATH)
  \/ \E a \in PlainArguments : Vertex(a[1], a[2])
  \/ \E t \in PrimitiveTypes : \E o \in BezierOrders :
       \E k \in 1 .. MaxPrimitiveVertices : AddPrimitive(t, o, k)

SpecAddToShape == Init /\ [][NextAddToShape]_vars

\* the three vertex operations at differing positions, on contours of either
\* kind and with either Bezier order
NextVertices ==
  \/ \E k \in ShapeKinds : BeginShape(k)
  \/ \E k \in ShapeKinds : BeginContour(k)
  \/ \E a \in PositionArguments : Vertex(a[1], a[2])
  \/ \E a \in PositionArguments : BezierVertex(a[1], a[2])
  \/ \E a \in PositionArguments : SplineVertex(a[1], a[2])
  \/ \E o \in BezierOrders : BezierOrder(o)

SpecVertices == Init /\ [][NextVertices]_vars

\* PATH contours of line and spline segments, built while the spline
\* configuration changes, and closed
NextSplines ==
  \/ BeginShape(PATH)
  \/ BeginContour(PATH)
  \/ \E a \in PlainArguments : Vertex(a[1], a[2])
  \/ \E a \in PlainArguments : SplineVertex(a[1], a[2])
  \/ \E e \in ConfiguredEndModes : SplineProperty("ends", e)
  \/ \E t \in Tightnesses : SplineProperty("tightness", t)
  \/ \E e \in ConfiguredEndModes : \E t \in Tightnesses : SplineProperties(e, t)
  \/ \E i \in ContourIndices : EndContour(CLOSE, i)
  \/ EndShape(CLOSE)

SpecSplines == Init /\ [][NextSplines]_vars

\* attribute values of every shape the code tells apart
SomeColor == NewColor(<<Num(1), Num(0), Num(0), Num(1)>>)

SomeVector == JsVector(Num(1), Num(0), Num(0))

VectorPositions == {JsVector(Num(0), Num(0), Num(0)), SomeVector}

AttributeValues == {SomeColor, JsNumber(5), JsArray(<<Num(1), Num(2)>>)}

SerializedValues ==
  AttributeValues \cup VectorPositions \cup
    {JsNull, JsUndefined, JsString, JsNumber(0), JsNumberObject(0),
     JsNumberObject(5), JsArray(<<>>), JsArray(<<Num(1)>>),
     JsArray(<<Num(1), Num(2), Num(3)>>),
     NewColor(<<Num(0), Num(0), Num(0), Num(1)>>)}

\* queues of 0 to 5 numbers, one of them with a Number object in front
Queues ==
  {SubSeq(<<Num(1), Num(2), Num(3), Num(4), Num(5)>>, 1, n) : n \in 0 .. 5}
    \cup {<<NumberObject(5), Num(2)>>}

PropertyData == {JsArray(<<Num(1), Num(2)>>), JsArray(<<Num(1), Num(2), Num(3)>>)}

SerializableTemplates ==
  [position : {JsVector(Num(0), Num(0), Num(0))},
   textureCoordinates : {JsArray(<<Num(0), Num(0)>>)},
   fill : {SomeColor, JsNumber(5)}]

\* a shape whose template holds values of the kinds that are serialized
InitSerialize ==
  /\ contours = <<>>
  /\ vertexProperties \in SerializableTemplates
  /\ bezierOrder = 3
  /\ splineProperties = [tightness |-> 0, ends |-> INCLUDE]
  /\ kind = "null"
  /\ creators = DefaultCreators
  /\ userVertexProperties = NoUserVertexProperties
  /\ initialVertexProperties = SameObject
  /\ last = NoCall

SerializeBound == TotalVertices(contours) <= MaxSerializedVertices

\* vertices built while attributes are set and registered, and the
\* serialization of the vertices of the shape
NextSerialize ==
  \/ BeginShape(PATH) /\ SerializeBound'
  \/ \E position \in VectorPositions : Vertex(position, Undefined) /\ SerializeBound'
  \/ \E value \in AttributeValues : Fill(value)
  \/ \E data \in PropertyData : VertexProperty("a", data)
  \/ \E vertex \in ShapeVertices(contours) : CallVertexToArray(vertex)
  \/ CallArrayToVertex

SpecSerialize == InitSerialize /\ [][NextSerialize]_vars

\* serializeToArray and hydrateValue on values of every kind
NextValues ==
  \/ \E val \in SerializedValues : CallSerializeToArray(val)
  \/ \E queue \in Queues : \E original \in SerializedValues :
       CallHydrateValue(queue, original)

SpecValues == InitSerialize /\ [][NextValues]_vars

\* the same, on a shape built with creators that the caller may clear
NextWithCreators == NextAttributes \/ ClearCreators

SpecWithCreators == Init /\ [][NextWithCreators]_vars

----------------------------------------------------------------------------
(* Properties *)

ContourRange == 1 .. Len(contours)

PrimitiveRange(ci) == 1 .. Len(contours[ci].primitives)

\* the step is a close request (endContour(CLOSE, i) or endShape(CLOSE))
CloseStep ==
  /\ last'.op \in {"endContour", "endShape"}
  /\ last'.closeMode = CLOSE

\* the contour holds exactly [Anchor, SplineSegment]
IsAnchorAndSpline(contour) ==
  /\ Len(contour.primitives) = 2
  /\ contour.primitives[1].type = "Anchor"
  /\ contour.primitives[2].type = "SplineSegment"

\* index i names a PATH contour that holds at least one primitive
IsNonEmptyPath(cs, i) ==
  /\ i \in 0 .. Len(cs) - 1
  /\ cs[i + 1].kind = PATH
  /\ Len(cs[i + 1].primitives) > 0

\* C1: every primitive contained in the shape has a vertex count less than
\* or equal to its vertexCapacity.
C1_CapacityRespected ==
  \A ci \in ContourRange : \A pi \in PrimitiveRange(ci) :
    VertexCount(contours[ci].primitives[pi]) <= VertexCapacity(contours[ci].primitives[pi])

\* a full BezierSegment followed by a second BezierSegment that took the
\* vertex that no longer fitted
C1_Witness ==
  \E ci \in ContourRange : \E pi \in PrimitiveRange(ci) :
    LET ps == contours[ci].primitives
    IN /\ ps[pi].type = "BezierSegment"
       /\ VertexCount(ps[pi]) = ps[pi].order
       /\ pi < Len(ps)
       /\ ps[pi + 1].type = "BezierSegment"

\* C2: each PATH contour that holds at least one primitive has as primitive 0
\* an Anchor with exactly one vertex, and no Anchor at index 1 or later.
C2_PathStartsWithOneAnchor ==
  \A ci \in ContourRange :
    LET ps == contours[ci].primitives
    IN (contours[ci].kind = PATH /\ Len(ps) >= 1) =>
         /\ ps[1].type = "Anchor"
         /\ VertexCount(ps[1]) = 1
         /\ \A pi \in 2 .. Len(ps) : ps[pi].type # "Anchor"

\* a splineVertex call has just created the anchor of a second PATH contour,
\* after a first PATH contour that holds segments
C2_Witness ==
  /\ last.op = "splineVertex" /\ ~last.failed
  /\ Len(contours) = 2
  /\ contours[1].kind = PATH /\ Len(contours[1].primitives) >= 2
  /\ contours[2].kind = PATH /\ Len(contours[2].primitives) = 1

\* C3: for every primitive contained in the shape's contours, the stored
\* location is valid: the primitive found at (contoursIndex, primitivesIndex)
\* is the primitive itself.
C3_StoredLocationsValid ==
  \A ci \in ContourRange : \A pi \in PrimitiveRange(ci) :
    LET p == contours[ci].primitives[pi]
    IN /\ p.contoursIndex = ci - 1
       /\ p.primitivesIndex = pi - 1
       /\ At(contours, p.contoursIndex, p.primitivesIndex) = p

\* endContour(CLOSE, i) has just closed a contour that is not the last one,
\* splicing a later non-empty contour out and back
C3_Witness ==
  /\ last.op = "endContour" /\ last.closeMode = CLOSE /\ ~last.failed
  /\ last.index >= 0 /\ last.index < Len(contours) - 1
  /\ LET ps == contours[last.index + 1].primitives
     IN Len(ps) > 0 /\ ps[Len(ps)].isClosing
  /\ Len(contours[Len(contours)].primitives) > 0

\* C4: every LineSegment, BezierSegment and SplineSegment attached to the
\* shape has a stored primitive index of at least 1, and the primitive at the
\* stored location minus one is the one right before it in its contour.
C4_SegmentsHavePredecessor ==
  \A ci \in ContourRange : \A pi \in PrimitiveRange(ci) :
    LET p == contours[ci].primitives[pi]
    IN IsSegment(p) =>
         /\ p.primitivesIndex >= 1
         /\ pi >= 2
         /\ At(contours, p.contoursIndex, p.primitivesIndex - 1)
              = contours[ci].primitives[pi - 1]

\* a contour that holds a segment of each variant
C4_Witness ==
  \E ci \in ContourRange :
    \A t \in {"LineSegment", "BezierSegment", "SplineSegment"} :
      \E pi \in PrimitiveRange(ci) : contours[ci].primitives[pi].type = t

\* C5: a close request on a non-empty PATH contour whose last primitive does
\* not self-handle closing appends exactly one primitive to that contour, a
\* LineSegment flagged isClosing whose single vertex has the anchor vertex's
\* position, textureCoordinates and fill; the primitives already in the
\* contour are unchanged.
C5_ClosingVertexCopiesAnchor ==
  [][(/\ CloseStep
      /\ IsNonEmptyPath(contours, last'.index)
      /\ ~IsAnchorAndSpline(contours[last'.index + 1]))
     => LET old == contours[last'.index + 1].primitives
            new == contours'[last'.index + 1].primitives
            anchorVertex == old[1].vertices[1]
        IN /\ Len(new) = Len(old) + 1
           /\ SubSeq(new, 1, Len(old)) = old
           /\ new[Len(new)].type = "LineSegment"
           /\ new[Len(new)].isClosing
           /\ Len(new[Len(new)].vertices) = 1
           /\ new[Len(new)].vertices[1].position = anchorVertex.position
           /\ new[Len(new)].vertices[1].textureCoordinates = anchorVertex.textureCoordinates
           /\ new[Len(new)].vertices[1].fill = anchorVertex.fill]_vars

\* C6: a close request on a non-empty PATH contour is delegated exactly when
\* the contour holds [Anchor, SplineSegment]: then the spline's end-mode
\* becomes JOIN and nothing else changes (no vertex, no primitive, the shape's
\* spline configuration and the template as before); in every other case one
\* closing vertex is emitted.
C6_DelegatesIffSoleSpline ==
  [][(CloseStep /\ IsNonEmptyPath(contours, last'.index))
     => LET i == last'.index + 1
            old == contours[i].primitives
            new == contours'[i].primitives
        IN IF IsAnchorAndSpline(contours[i])
           THEN /\ contours' = [contours EXCEPT ![i].primitives[2].ends = JOIN]
                /\ vertexProperties' = vertexProperties
                /\ splineProperties' = splineProperties
           ELSE /\ Len(new) = Len(old) + 1
                /\ new[Len(new)].isClosing
                /\ TotalVertices(contours') = TotalVertices(contours) + 1]_vars

\* endContour(CLOSE) has just been delegated to the sole spline of a contour,
\* whose end-mode is now JOIN while the shape's own is not
C6_Witness ==
  /\ last.op = "endContour" /\ last.closeMode = CLOSE /\ ~last.failed
  /\ IsNonEmptyPath(contours, last.index)
  /\ IsAnchorAndSpline(contours[last.index + 1])
  /\ contours[last.index + 1].primitives[2].ends = JOIN
  /\ splineProperties.ends # JOIN

\* C7: a close request changes nothing outside contour i: the template and
\* the spline configuration are as before the call, and every other contour
\* is the same contour at the same index.
C7_CloseTouchesOnlyItsContour ==
  [][CloseStep
     => /\ vertexProperties' = vertexProperties
        /\ splineProperties' = splineProperties
        /\ Len(contours') = Len(contours)
        /\ \A j \in ContourRange :
             j # last'.index + 1 => contours'[j] = contours[j]]_vars

\* endContour(CLOSE, i) has just emitted a closing vertex into a contour that
\* is not the last one, at a position that differs from the template's
C7_Witness ==
  /\ last.op = "endContour" /\ last.closeMode = CLOSE /\ ~last.failed
  /\ last.index >= 0 /\ last.index < Len(contours) - 1
  /\ Len(contours[Len(contours)].primitives) > 0
  /\ LET ps == contours[last.index + 1].primitives
     IN /\ Len(ps) > 0
        /\ ps[Len(ps)].isClosing
        /\ ps[Len(ps)].vertices[1].position # vertexProperties.position

\* C8: when a close request fails, the template after the call equals the
\* template before the call.
C8_TemplateRestoredOnFailure ==
  [][(CloseStep /\ last'.failed) => vertexProperties' = vertexProperties]_vars

\* C9: a close request on a contour that has no primitives completes without
\* failure.
C9_CloseOfEmptyContourSucceeds ==
  (/\ last.op \in {"endContour", "endShape"}
   /\ last.closeMode = CLOSE
   /\ last.index \in 0 .. Len(contours) - 1
   /\ Len(contours[last.index + 1].primitives) = 0)
  => ~last.failed

\* C10: endContour and endShape leave the whole shape state unchanged when
\* closeMode is OPEN, and when closeMode is CLOSE on a non-empty contour whose
\* kind is not PATH.
C10_OpenAndNonPathCloseChangeNothing ==
  [][(/\ last'.op \in {"endContour", "endShape"}
      /\ \/ last'.closeMode = OPEN
         \/ /\ last'.closeMode = CLOSE
            /\ last'.index \in 0 .. Len(contours) - 1
            /\ Len(contours[last'.index + 1].primitives) > 0
            /\ contours[last'.index + 1].kind # PATH)
     => /\ UNCHANGED <<contours, vertexProperties, splineProperties, bezierOrder, kind>>
        /\ ~last'.failed]_vars

\* endContour(CLOSE, i) has just returned on a TRIANGLE_STRIP contour that
\* holds vertices
C10_Witness ==
  /\ last.op = "endContour" /\ last.closeMode = CLOSE /\ ~last.failed
  /\ last.index \in 0 .. Len(contours) - 1
  /\ contours[last.index + 1].kind = TRIANGLE_STRIP
  /\ Len(contours[last.index + 1].primitives) > 0

\* the contour ends closed: with a closing primitive, or with a sole spline
\* whose end-mode is JOIN
IsClosed(contour) ==
  LET ps == contour.primitives
  IN /\ Len(ps) > 0
     /\ \/ ps[Len(ps)].isClosing
        \/ IsAnchorAndSpline(contour) /\ ps[2].ends = JOIN

\* C11: endShape(CLOSE) leaves every contour with index 1 or higher
\* unchanged, also a non-empty PATH contour, while endContour(CLOSE, i) on a
\* non-empty PATH contour closes the contour at index i, whatever i is.
C11_EndShapeClosesOnlyFirstContour ==
  [][/\ (last'.op = "endShape" /\ last'.closeMode = CLOSE)
        => /\ Len(contours') = Len(contours)
           /\ \A j \in 2 .. Len(contours) : contours'[j] = contours[j]
     /\ (/\ last'.op = "endContour" /\ last'.closeMode = CLOSE
         /\ IsNonEmptyPath(contours, last'.index))
        => /\ ~last'.failed
           /\ IsClosed(contours'[last'.index + 1])]_vars

\* endShape(CLOSE) has just closed contour 0 of a shape whose contour 1 is a
\* PATH contour that holds segments and stays open
C11_Witness ==
  /\ last.op = "endShape" /\ last.closeMode = CLOSE /\ ~last.failed
  /\ Len(contours) >= 2
  /\ IsClosed(contours[1])
  /\ contours[2].kind = PATH
  /\ Len(contours[2].primitives) >= 2
  /\ ~IsClosed(contours[2])

\* C12: a primitive with k >= 1 vertices that adds itself to a shape whose
\* last contour is non-empty leaves its vertices, in order, behind those the
\* contour's last primitive already held: in that primitive as far as they
\* fit, the rest (if any) in one new primitive right after it; the number of
\* vertices held by the two together is the same before and after.
C12_CapacityConservation ==
  [][(/\ last'.op = "addToShape"
      /\ Len(contours) > 0
      /\ Len(contours[Len(contours)].primitives) > 0)
     => LET p == last'.primitive
            n == Len(contours)
            old == contours[n].primitives
            new == contours'[n].primitives
            m == Len(old)
            attached == IF Len(new) > m THEN new[m + 1].vertices ELSE <<>>
        IN /\ ~last'.failed
           /\ Len(p.vertices) >= 1
           /\ Len(new) \in {m, m + 1}
           /\ Len(new) = m + 1 => Len(attached) > 0
           /\ new[m].vertices \o attached = old[m].vertices \o p.vertices
           /\ Len(new[m].vertices) + Len(attached)
                = Len(old[m].vertices) + Len(p.vertices)
           /\ SubSeq(new, 1, m - 1) = SubSeq(old, 1, m - 1)
           /\ \A j \in 1 .. n - 1 : contours'[j] = contours[j]]_vars

\* a BezierSegment of two vertices has just been added behind a
\* BezierSegment with room for one: one vertex moved, one was attached
C12_Witness ==
  /\ last.op = "addToShape" /\ ~last.failed
  /\ Len(last.primitive.vertices) = 2
  /\ Len(contours) > 0
  /\ LET ps == contours[Len(contours)].primitives
         m == Len(ps)
     IN /\ m >= 3
        /\ ps[m].type = "BezierSegment" /\ ps[m - 1].type = "BezierSegment"
        /\ Len(ps[m].vertices) = 1
        /\ Len(ps[m - 1].vertices) = ps[m - 1].order
        /\ ps[m - 1].vertices[Len(ps[m - 1].vertices)] = last.primitive.vertices[1]
        /\ ps[m].vertices[1] = last.primitive.vertices[2]

\* the step is a vertex, bezierVertex or splineVertex call that returned
VertexStep ==
  /\ last'.op \in {"vertex", "bezierVertex", "splineVertex"}
  /\ ~last'.failed

\* C13: each successful vertex, bezierVertex or splineVertex call adds
\* exactly one vertex, as the last vertex of the last primitive of the last
\* contour.  If that contour is non-empty and its last primitive is of the
\* variant of the newly built primitive and has spare capacity, the vertex is
\* moved into that primitive and the new primitive is discarded (it keeps no
\* vertex and stores no location, the primitive count is unchanged);
\* otherwise exactly one single-vertex primitive is appended.  No other
\* contour changes.
C13_VertexCallAddsOneVertex ==
  [][VertexStep
     => LET n == Len(contours)
            old == contours[n].primitives
            new == contours'[n].primitives
            m == Len(old)
            vertex == vertexProperties'
            built == NewPrimitive(creators[<<last'.op, ContourKind(contours[n])>>],
                                  bezierOrder, <<vertex>>)
            merges == /\ m > 0
                      /\ old[m].type = built.type
                      /\ VertexCount(old[m]) < VertexCapacity(old[m])
        IN /\ Len(contours') = n
           /\ \A j \in 1 .. n - 1 : contours'[j] = contours[j]
           /\ TotalVertices(contours') = TotalVertices(contours) + 1
           /\ new[Len(new)].vertices[Len(new[Len(new)].vertices)] = vertex
           /\ IF merges
              THEN /\ Len(new) = m
                   /\ new = [old EXCEPT ![m].vertices = Append(@, vertex)]
                   /\ AddedPrimitive(contours, built).vertices = <<>>
                   /\ AddedPrimitive(contours, built).contoursIndex = Null
                   /\ AddedPrimitive(contours, built).primitivesIndex = Null
              ELSE /\ Len(new) = m + 1
                   /\ SubSeq(new, 1, m) = old
                   /\ new[m + 1].type = built.type
                   /\ new[m + 1].vertices = <<vertex>>]_vars

\* a bezierVertex call has just moved its vertex into a BezierSegment that
\* held a vertex at another position, filling it
C13_Witness ==
  /\ last.op = "bezierVertex" /\ ~last.failed
  /\ Len(contours) > 0
  /\ LET ps == contours[Len(contours)].primitives
         m == Len(ps)
     IN /\ m = 2
        /\ ps[m].type = "BezierSegment"
        /\ VertexCount(ps[m]) = VertexCapacity(ps[m])
        /\ ps[m].vertices[1].position # ps[m].vertices[2].position

\* C14: beginContour(kind) removes the shape's last contour exactly when
\* that contour is a PATH contour with zero primitives, then pushes one new
\* empty contour of the given kind: the contour count is unchanged in that
\* case and grows by one otherwise, and every contour that holds primitives
\* is kept unchanged and in order.
C14_BeginContourDropsOnlyEmptyPath ==
  [][\A shapeKind \in ShapeKinds :
       (BeginContour(shapeKind) /\ last'.op = "beginContour")
       => LET n == Len(contours)
              removes == /\ n > 0
                         /\ contours[n].kind = PATH
                         /\ Len(contours[n].primitives) = 0
              n2 == Len(contours')
          IN /\ n2 = IF removes THEN n ELSE n + 1
             /\ contours'[n2].kind = shapeKind
             /\ contours'[n2].primitives = <<>>
             /\ SubSeq(contours', 1, n2 - 1)
                  = IF removes THEN SubSeq(contours, 1, n - 1) ELSE contours
             /\ \A j \in 1 .. n :
                  Len(contours[j].primitives) > 0 => contours'[j] = contours[j]]_vars

\* beginContour has just pushed a PATH contour behind a TRIANGLE_STRIP
\* contour without primitives, which it kept
C14_Witness ==
  /\ last.op = "beginContour"
  /\ Len(contours) = 2
  /\ contours[1].kind = TRIANGLE_STRIP /\ Len(contours[1].primitives) = 0
  /\ contours[2].kind = PATH /\ Len(contours[2].primitives) = 0

\* C15: in every state in which it is called, beginShape(kind) sets the
\* shape's kind to kind and opens a contour of that kind as the shape's first
\* contour (index 0), the contour that endShape(CLOSE) closes.
C15_BeginShapeOpensFirstContour ==
  [][\A shapeKind \in ShapeKinds :
       (BeginShape(shapeKind) /\ last'.op = "beginShape")
       => /\ kind' = shapeKind
          /\ Len(contours') = 1
          /\ contours'[1] = NewContour(shapeKind)]_vars

\* C16: a SplineSegment's end-mode and tightness are the shape's spline
\* configuration at the moment the segment was attached: no later call
\* changes them, neither a change of the shape's spline configuration nor a
\* splineVertex call whose vertex is merged into the segment; only a close
\* the segment handles itself changes its end-mode, to JOIN.
C16_SplinePropertiesAreSnapshot ==
  [][/\ \A ci \in ContourRange : \A pi \in PrimitiveRange(ci) :
          LET old == contours[ci].primitives[pi]
              new == contours'[ci].primitives[pi]
          IN old.type = "SplineSegment"
             => /\ ci <= Len(contours') /\ pi <= Len(contours'[ci].primitives)
                /\ new.type = "SplineSegment"
                /\ new.tightness = old.tightness
                /\ \/ new.ends = old.ends
                   \/ /\ new.ends = JOIN
                      /\ CloseStep /\ last'.index = ci - 1
                      /\ IsAnchorAndSpline(contours[ci])
     /\ (/\ VertexStep /\ last'.op = "splineVertex"
         /\ Len(contours'[Len(contours')].primitives)
              > Len(contours[Len(contours)].primitives))
        => LET ps == contours'[Len(contours')].primitives
           IN ps[Len(ps)].type = "SplineSegment"
              => /\ ps[Len(ps)].ends = splineProperties.ends
                 /\ ps[Len(ps)].tightness = splineProperties.tightness]_vars

\* a splineVertex call has just merged its vertex into a SplineSegment whose
\* end-mode and tightness both differ from the shape's current ones
C16_Witness ==
  /\ last.op = "splineVertex" /\ ~last.failed
  /\ Len(contours) > 0
  /\ LET ps == contours[Len(contours)].primitives
     IN /\ Len(ps) >= 2
        /\ ps[Len(ps)].type = "SplineSegment"
        /\ Len(ps[Len(ps)].vertices) >= 2
        /\ ps[Len(ps)].ends \in ConfiguredEndModes
        /\ ps[Len(ps)].ends # splineProperties.ends
        /\ ps[Len(ps)].tightness # splineProperties.tightness

\* C17: serializeToArray(value) returns the empty sequence for null or
\* absent, a one-element sequence holding the number for a bare number, the
\* sequence itself for an array, and the converted array for a value that
\* has an array conversion.
C17_SerializeToArrayByShape ==
  last.op = "serializeToArray"
  => CASE last.value.tag \in {"null", "undefined"} ->
            ~last.failed /\ last.array = <<>>
       [] last.value.tag = "number" ->
            ~last.failed /\ last.array = last.value.items
       [] last.value.tag = "Array" ->
            ~last.failed /\ last.array = last.value.items
       [] last.value.tag \in {"Vector", "Color"} ->
            ~last.failed /\ last.array = last.value.items
       [] OTHER -> TRUE

\* C18: serializeToArray and hydrateValue both fail when given a value or
\* template example of none of the recognised shapes; neither returns a
\* value silently in that case.
C18_UnrecognisedShapeFails ==
  (/\ last.op \in {"serializeToArray", "hydrateValue"}
   /\ last.value.tag = "string")
  => last.failed

\* every attribute of the vertex is a bare number, an array, a 3-vector or
\* a 4-component colour
IsSerializable(vertex) ==
  \A key \in DOMAIN vertex :
    vertex[key].tag \in {"number", "Array", "Vector", "Color"}

\* C19: for every vertex v of a shape whose every attribute is a bare
\* number, an array, a 3-vector or a 4-component colour,
\* arrayToVertex(vertexToArray(v)) equals v attribute by attribute, and
\* arrayToVertex consumes exactly the numbers vertexToArray produced.
C19_SerializationRoundTrip ==
  /\ (last.op = "vertexToArray" /\ IsSerializable(last.vertex)) => ~last.failed
  /\ (last.op = "arrayToVertex" /\ IsSerializable(last.vertex))
     => /\ \A key \in DOMAIN last.vertex :
             /\ key \in DOMAIN last.result
             /\ last.result[key] = last.vertex[key]
        /\ last.shifts = Len(last.array)
        /\ last.queue = <<>>

\* C20: once an attribute is registered with vertexProperty, the number of
\* components it contributes in vertexToArray and consumes in arrayToVertex
\* stays the arity of the first registration, whatever vertexProperty and
\* setter calls follow, so all vertices of the shape serialize to arrays of
\* the same length.
C20_ArityFixedAtRegistration ==
  /\ \A key \in DOMAIN userVertexProperties :
       /\ HydrateValue(<<>>, vertexProperties[key]).shifts
            = userVertexProperties[key]
       /\ \A vertex \in ShapeVertices(contours) :
            LET r == SerializeUserKeys(<<key>>, userVertexProperties, vertex)
            IN ~r.threw => Len(r.array) = userVertexProperties[key]
  /\ \A v1, v2 \in ShapeVertices(contours) :
       LET r1 == VertexToArray(vertexProperties, userVertexProperties, v1)
           r2 == VertexToArray(vertexProperties, userVertexProperties, v2)
       IN (~r1.threw /\ ~r2.threw) => Len(r1.array) = Len(r2.array)

----------------------------------------------------------------------------
(* Arithmetic on arrays of numbers, and the curve evaluations *)

\* the components a curve is evaluated on are exact: a number is an integer
\* Num(n) or a fraction n/d in lowest terms, and an operation on undefined
\* gives NaN
MaxArrayLength == 2

NaN == [kind |-> "NaN", n |-> 0]

Abs(n) == IF n < 0 THEN -n ELSE n

RECURSIVE Gcd(_, _)
Gcd(a, b) == IF b = 0 THEN a ELSE Gcd(b, a % b)

IsNumeric(e) == e.kind \in {"number", "Number"}

Numerator(e) == e.n

Denominator(e) == IF "d" \in DOMAIN e THEN e.d ELSE 1

\* the number n/d, d > 0
Quotient(n, d) ==
  LET g == Gcd(Abs(n), d)
  IN IF d \div g = 1
       THEN Num(n \div g)
       ELSE [kind |-> "number", n |-> n \div g, d |-> d \div g]

Plus(x, y) ==
  IF IsNumeric(x) /\ IsNumeric(y)
    THEN Quotient(Numerator(x) * Denominator(y) + Numerator(y) * Denominator(x),
                  Denominator(x) * Denominator(y))
    ELSE NaN

Minus(x, y) ==
  IF IsNumeric(x) /\ IsNumeric(y)
    THEN Quotient(Numerator(x) * Denominator(y) - Numerator(y) * Denominator(x),
                  Denominator(x) * Denominator(y))
    ELSE NaN

Times(x, y) ==
  IF IsNumeric(x) /\ IsNumeric(y)
    THEN Quotient(Numerator(x) * Numerator(y), Denominator(x) * Denominator(y))
    ELSE NaN

\* Math.pow(x, k) for a whole k >= 0
RECURSIVE Pow(_, _)
Pow(x, k) == IF k = 0 THEN Num(1) ELSE Times(x, Pow(x, k - 1))

\* array[i] of a JavaScript array, undefined past its end
ElementAt(array, i) == IF i <= Len(array) THEN array[i] ELSE UndefinedElement

\* the array that map() returns, as a sequence
NewArray(f) == SubSeq(f, 1, Len(f))

ArrayScale(array, scale) ==
  NewArray([i \in 1 .. Len(array) |-> Times(array[i], scale)])

RECURSIVE AddRest(_, _, _)
AddRest(result, rest, i) ==
  IF rest = <<>>
    THEN result
    ELSE AddRest(Plus(result, ElementAt(Head(rest), i)), Tail(rest), i)

\* arraySum(first, ...rest): as long as first, whatever the others hold
ArraySum(first, rest) ==
  NewArray([i \in 1 .. Len(first) |-> AddRest(first[i], rest, i)])

ArrayMinus(a, b) ==
  NewArray([i \in 1 .. Len(a) |-> Minus(a[i], ElementAt(b, i))])

EvaluateCubicBezierDroppingLast(controls, t) ==
  LET a == controls[1]
      b == controls[2]
      c == controls[3]
      u == Minus(Num(1), t)
  IN ArraySum(ArrayScale(a, Pow(u, 3)),
              <<ArrayScale(b, Times(Times(Num(3), Pow(u, 2)), t)),
                ArrayScale(c, Times(Times(Num(3), u), Pow(t, 2)))>>)

EvaluateCubicBezier(controls, t) ==
  LET a == controls[1]
      b == controls[2]
      c == controls[3]
      d == controls[4]
      u == Minus(Num(1), t)
  IN ArraySum(ArrayScale(a, Pow(u, 3)),
              <<ArrayScale(b, Times(Times(Num(3), Pow(u, 2)), t)),
                ArrayScale(c, Times(Times(Num(3), u), Pow(t, 2))),
                ArrayScale(d, Pow(t, 3))>>)

EvaluateQuadraticBezier(controls, t) ==
  LET a == controls[1]
      b == controls[2]
      c == controls[3]
      u == Minus(Num(1), t)
  IN ArraySum(ArrayScale(a, Pow(u, 2)),
              <<ArrayScale(b, Times(Times(Num(2), u), t)),
                ArrayScale(c, Times(t, t))>>)

\* a call of evaluateCubicBezier(controls, t), and what it returned
CallEvaluateCubicBezier(controls, t) ==
  /\ last' = [op |-> "evaluateCubicBezier", closeMode |-> "none", index |-> Null,
              failed |-> FALSE, controls |-> controls, t |-> t,
              array |-> EvaluateCubicBezier(controls, t)]
  /\ UNCHANGED <<initialVertexProperties, contours, vertexProperties, bezierOrder, splineProperties,
                 kind, creators, userVertexProperties>>

\* a call of evaluateQuadraticBezier(controls, t), and what it returned
CallEvaluateQuadraticBezier(controls, t) ==
  /\ last' = [op |-> "evaluateQuadraticBezier", closeMode |-> "none",
              index |-> Null, failed |-> FALSE, controls |-> controls, t |-> t,
              array |-> EvaluateQuadraticBezier(controls, t)]
  /\ UNCHANGED <<initialVertexProperties, contours, vertexProperties, bezierOrder, splineProperties,
                 kind, creators, userVertexProperties>>

\* the arrays of one length that serve as control points
Components == {Num(-2), Num(1)}

ControlArrays(n) == [1 .. n -> Components]

ArrayLengths == 1 .. MaxArrayLength

\* the curve parameters: both ends and points in between
Parameters == {Num(0), Quotient(1, 3), Quotient(1, 2), Num(1)}

\* the two Bezier evaluations on control arrays of equal length; they keep
\* no state, so one call of a fresh shape stands for every call
NextBezier ==
  /\ last = NoCall
  /\ \/ \E n \in ArrayLengths : \E controls \in [1 .. 4 -> ControlArrays(n)] :
          \E t \in Parameters : CallEvaluateCubicBezier(controls, t)
     \/ \E n \in ArrayLengths : \E controls \in [1 .. 3 -> ControlArrays(n)] :
          \E t \in Parameters : CallEvaluateQuadraticBezier(controls, t)

SpecBezier == Init /\ [][NextBezier]_vars

\* C21: on control arrays of equal length, evaluateCubicBezier([a,b,c,d], t)
\* is a at t = 0 and d at t = 1, and evaluateQuadraticBezier([a,b,c], t) is a
\* at t = 0 and c at t = 1, component by component.
C21_BezierBoundaryValues ==
  /\ last.op = "evaluateCubicBezier"
     => /\ last.t = Num(0) => last.array = last.controls[1]
        /\ last.t = Num(1) => last.array = last.controls[4]
  /\ last.op = "evaluateQuadraticBezier"
     => /\ last.t = Num(0) => last.array = last.controls[1]
        /\ last.t = Num(1) => last.array = last.controls[3]

\* a cubic evaluated at t = 1 on four differing control arrays gave the last
C21_Witness ==
  /\ last.op = "evaluateCubicBezier"
  /\ last.t = Num(1)
  /\ last.controls[1] # last.controls[4]
  /\ last.controls[2] # last.controls[3]
  /\ Len(last.array) = 2
  /\ last.array = last.controls[4]

\* x / k for a whole k > 0
DividedBy(x, k) ==
  IF IsNumeric(x) THEN Quotient(Numerator(x), Denominator(x) * k) ELSE NaN

\* the Bezier controls of the window that starts at vertices[i], for the
\* scale s
BezierControls(vertices, i, s) ==
  LET a == vertices[i]
      b == vertices[i + 1]
      c == vertices[i + 2]
      d == vertices[i + 3]
      bezB == ArraySum(b, <<ArrayScale(ArrayMinus(c, a), DividedBy(s, 6))>>)
      bezC == ArraySum(c, <<ArrayScale(ArrayMinus(b, d), DividedBy(s, 6))>>)
      bezD == c
  IN <<bezB, bezC, bezD>>

CatmullRomToBezierScaledByTightness(vertices, tightness) ==
  NewArray([i \in 1 .. (IF Len(vertices) > 3 THEN Len(vertices) - 3 ELSE 0) |->
     BezierControls(vertices, i, tightness)])

CatmullRomToBezier(vertices, tightness) ==
  LET s == Minus(Num(1), tightness)
  IN NewArray([i \in 1 .. (IF Len(vertices) > 3 THEN Len(vertices) - 3 ELSE 0) |->
        BezierControls(vertices, i, s)])

\* a call of catmullRomToBezier(vertices, tightness), and what it returned
CallCatmullRomToBezier(vertices, tightness) ==
  /\ last' = [op |-> "catmullRomToBezier", closeMode |-> "none", index |-> Null,
              failed |-> FALSE, points |-> vertices, tightness |-> tightness,
              result |-> CatmullRomToBezier(vertices, tightness)]
  /\ UNCHANGED <<initialVertexProperties, contours, vertexProperties, bezierOrder, splineProperties,
                 kind, creators, userVertexProperties>>

\* the most points of a Catmull-Rom input
MaxPoints == 5

\* the tightness of a call: the default, the degenerate one and one between
CurveTightnesses == {Num(0), Quotient(1, 2), Num(1)}

\* the points of a Catmull-Rom input: arrays of two components
CurvePoints == ControlArrays(2)

\* catmullRomToBezier on 3 to MaxPoints points
NextCatmullRom ==
  /\ last = NoCall
  /\ \E count \in 3 .. MaxPoints :
       \E vertices \in [1 .. count -> CurvePoints] :
         \E tightness \in CurveTightnesses :
           CallCatmullRomToBezier(vertices, tightness)

SpecCatmullRom == Init /\ [][NextCatmullRom]_vars

\* the points of the window that starts at point i of the last call
Window(i) == SubSeq(last.points, i, i + 3)

\* C22 as stated: with tightness = 1, the control triple of every window
\* (a,b,c,d) is (c,c,c).
C22_TightSplineCollapsesToOnePoint ==
  (last.op = "catmullRomToBezier" /\ last.tightness = Num(1))
  => \A i \in DOMAIN last.result :
       last.result[i] = <<Window(i)[3], Window(i)[3], Window(i)[3]>>

\* C22, amended: with tightness = 1 (s = 0), catmullRomToBezier returns one
\* control triple for every consecutive 4-window (a,b,c,d) of the input
\* points, and that triple is (b,c,c).
C22_TightSplineControls ==
  (last.op = "catmullRomToBezier" /\ last.tightness = Num(1))
  => /\ Len(last.result) = IF Len(last.points) > 3 THEN Len(last.points) - 3 ELSE 0
     /\ \A i \in DOMAIN last.result :
          last.result[i] = <<Window(i)[2], Window(i)[3], Window(i)[3]>>

\* a call with tightness 1 on five points, the windows of which have
\* differing a, b, c and d, returned (b,c,c) for both windows
C22_Witness ==
  /\ last.op = "catmullRomToBezier"
  /\ last.tightness = Num(1)
  /\ Len(last.points) = 5
  /\ Len(last.result) = 2
  /\ \A i \in 1 .. 2 :
       /\ Window(i)[1] # Window(i)[3]
       /\ Window(i)[2] # Window(i)[4]
       /\ Window(i)[2] # Window(i)[3]
       /\ last.result[i] = <<Window(i)[2], Window(i)[3], Window(i)[3]>>

----------------------------------------------------------------------------
(* SplineSegment.getControlPoints *)

\* a getControlPoints that puts the start vertex in once, whatever precedes
GetControlPointsWithOneStart(cs, p) ==
  LET prevVertex == GetStartVertex(cs, p)
      points == <<prevVertex>> \o p.vertices
  IN IF p.ends = INCLUDE
       THEN <<prevVertex>> \o points \o <<ArrayAt(p.vertices, -1, UndefinedVertex)>>
     ELSE IF p.ends = JOIN
       THEN <<ArrayAt(p.vertices, -1, UndefinedVertex)>> \o points
              \o <<prevVertex, ArrayAt(p.vertices, 0, UndefinedVertex)>>
     ELSE points

\* a getControlPoints whose JOIN padding stops at the start vertex
GetControlPointsJoinedHalfway(cs, p) ==
  LET prevVertex == GetStartVertex(cs, p)
      points == (IF ComesAfterSegment(cs, p) THEN <<prevVertex>> ELSE <<>>)
                  \o <<prevVertex>> \o p.vertices
  IN IF p.ends = INCLUDE
       THEN <<prevVertex>> \o points \o <<ArrayAt(p.vertices, -1, UndefinedVertex)>>
     ELSE IF p.ends = JOIN
       THEN <<ArrayAt(p.vertices, -1, UndefinedVertex)>> \o points
              \o <<prevVertex>>
     ELSE points

\* SplineSegment.getControlPoints
GetControlPoints(cs, p) ==
  LET prevVertex == GetStartVertex(cs, p)
      points == (IF ComesAfterSegment(cs, p) THEN <<prevVertex>> ELSE <<>>)
                  \o <<prevVertex>> \o p.vertices
  IN IF p.ends = INCLUDE
       THEN <<prevVertex>> \o points \o <<ArrayAt(p.vertices, -1, UndefinedVertex)>>
     ELSE IF p.ends = JOIN
       THEN <<ArrayAt(p.vertices, -1, UndefinedVertex)>> \o points
              \o <<prevVertex, ArrayAt(p.vertices, 0, UndefinedVertex)>>
     ELSE points

\* PATH contours of line and spline segments at differing positions, built
\* under every end-mode, and closed
NextControlPoints ==
  \/ BeginShape(PATH)
  \/ BeginContour(PATH)
  \/ \E a \in PositionArguments : Vertex(a[1], a[2])
  \/ \E a \in PositionArguments : SplineVertex(a[1], a[2])
  \/ \E e \in EndModes : SplineProperty("ends", e)
  \/ EndShape(CLOSE)

SpecControlPoints == Init /\ [][NextControlPoints]_vars

\* C23: for every SplineSegment of the shape, with own vertices v1..vn and
\* predecessor end vertex p, getControlPoints returns the base window
\* p, v1..vn (p twice when the predecessor is a segment), padded in end-mode
\* INCLUDE with one more p in front and vn at the back, in end-mode JOIN
\* with vn in front and p, v1 at the back, and not padded in end-mode
\* EXCLUDE.
C23_ControlPointWindow ==
  \A ci \in ContourRange : \A pi \in PrimitiveRange(ci) :
    LET spline == contours[ci].primitives[pi]
    IN (spline.type = "SplineSegment" /\ pi > 1)
       => LET predecessor == contours[ci].primitives[pi - 1]
              p == GetEndVertex(contours, predecessor)
              v == spline.vertices
              base == (IF predecessor.type = "Anchor" THEN <<p>> ELSE <<p, p>>) \o v
              points == GetControlPoints(contours, spline)
          IN /\ spline.ends = INCLUDE => points = <<p>> \o base \o <<v[Len(v)]>>
             /\ spline.ends = JOIN => points = <<v[Len(v)]>> \o base \o <<p, v[1]>>
             /\ spline.ends = EXCLUDE => points = base

\* a spline in end-mode JOIN that follows a line segment, with two own
\* vertices at differing positions, the first of them away from the line
\* segment's end
C23_Witness ==
  /\ Len(contours) = 1
  /\ Len(contours[1].primitives) = 3
  /\ contours[1].primitives[2].type = "LineSegment"
  /\ LET spline == contours[1].primitives[3]
         p == contours[1].primitives[2].vertices[1]
     IN /\ spline.type = "SplineSegment"
        /\ spline.ends = JOIN
        /\ Len(spline.vertices) = 2
        /\ spline.vertices[1] # spline.vertices[2]
        /\ spline.vertices[1] # p
        /\ GetControlPoints(contours, spline)
             = <<spline.vertices[2], p, p, spline.vertices[1], spline.vertices[2],
                 p, spline.vertices[1]>>

----------------------------------------------------------------------------
(* Properties of the creators, the curves and the conversion to vertices *)

\* C24: the creators hold an entry for every pair of an operation in
\* {vertex, bezierVertex, splineVertex} and a contour kind in {EMPTY_PATH,
\* PATH, TRIANGLE_STRIP}, so each of the three build operations succeeds in
\* a contour of any of these kinds.
C24_BuildSucceedsInEveryKind ==
  (last.op \in {"vertex", "bezierVertex", "splineVertex"} /\ Len(contours) > 0)
  => ~last.failed

----------------------------------------------------------------------------
(* Lengths: Vector.dist and polylineLength *)

\* the whole root of a perfect square (the positions of the model keep every
\* distance rational)
IntegerRoot(n) == CHOOSE r \in 0 .. n : r * r = n

\* Math.hypot(x, y, z)
Hypot(x, y, z) ==
  LET sum == Plus(Plus(Times(x, x), Times(y, y)), Times(z, z))
  IN IF IsNumeric(sum)
       THEN Quotient(IntegerRoot(Numerator(sum)), IntegerRoot(Denominator(sum)))
       ELSE NaN

\* vector.x, vector.y, vector.z: undefined on a value that is no Vector
Component(value, i) ==
  IF value.tag = "Vector" THEN value.items[i] ELSE UndefinedElement

\* a.position.dist(b.position) fails when a has no position with a dist
\* method, and when b or its position is absent
DistThrows(a, b) ==
  \/ a = UndefinedVertex
  \/ b = UndefinedVertex
  \/ AttributeOf(a, "position").tag # "Vector"
  \/ AttributeOf(b, "position").tag \in {"null", "undefined"}

\* Vector.dist
Dist(a, b) ==
  Hypot(Minus(Component(a, 1), Component(b, 1)),
        Minus(Component(a, 2), Component(b, 2)),
        Minus(Component(a, 3), Component(b, 3)))

RECURSIVE PolylineLengthFrom(_, _, _)
PolylineLengthFrom(vertices, i, length) ==
  IF i > Len(vertices)
    THEN [threw |-> FALSE, length |-> length]
  ELSE IF DistThrows(vertices[i - 1], vertices[i])
    THEN [threw |-> TRUE, length |-> length]
  ELSE PolylineLengthFrom(vertices, i + 1,
         Plus(length, Dist(vertices[i - 1].position, vertices[i].position)))

\* whether a.position.dist(b.position) gets as far as calling dist
DistInvoked(a, b) ==
  /\ a # UndefinedVertex
  /\ b # UndefinedVertex
  /\ AttributeOf(a, "position").tag = "Vector"

\* polylineLength(vertices): the length, and the Vector methods invoked (a
\* first pass that does not reach dist has thrown)
PolylineLength(vertices) ==
  LET Measured(r) ==
        [threw |-> r.threw, length |-> r.length,
         invoked |-> IF Len(vertices) >= 2 /\ DistInvoked(vertices[1], vertices[2])
                       THEN {"dist"} ELSE {}]
  IN Measured(PolylineLengthFrom(vertices, 2, Num(0)))

\* the segment once hullLength() has stored its result
WithHullLength(p, length) ==
  [type |-> p.type, vertices |-> p.vertices, order |-> p.order, ends |-> p.ends,
   tightness |-> p.tightness, isClosing |-> p.isClosing,
   contoursIndex |-> p.contoursIndex, primitivesIndex |-> p.primitivesIndex,
   hullLength |-> length]

\* BezierSegment.hullLength(): the length, and the segment it leaves behind
HullLength(cs, p) ==
  IF "hullLength" \in DOMAIN p
    THEN [threw |-> FALSE, length |-> p.hullLength, primitive |-> p,
          invoked |-> {}]
    ELSE LET Stored(l) ==
               IF l.threw
                 THEN [threw |-> TRUE, length |-> NaN, primitive |-> p,
                       invoked |-> l.invoked]
                 ELSE [threw |-> FALSE, length |-> l.length,
                       primitive |-> WithHullLength(p, l.length),
                       invoked |-> l.invoked]
         IN Stored(PolylineLength(<<GetStartVertex(cs, p)>> \o p.vertices))

----------------------------------------------------------------------------
(* PrimitiveToVerticesConverter *)

\* Math.ceil
Ceil(x) ==
  IF IsNumeric(x) THEN Num(-((-Numerator(x)) \div Denominator(x))) ELSE NaN

\* the number of passes of `for (i = 0; i < numPoints; i++)` for
\* numPoints = Math.max(1, Math.ceil(length * curveDetail)); NaN gives none
NumPoints(length, curveDetail) ==
  LET c == Ceil(Times(length, curveDetail))
  IN IF ~IsNumeric(c) THEN 0 ELSE IF c.n > 1 THEN c.n ELSE 1

\* a converter over the shape: its output contours, whether a visit threw,
\* the contours of the shape (hullLength() writes into its segment), and
\* the Vector methods the visits invoked on positions
NewConverter(cs) ==
  [contours |-> <<>>, failed |-> FALSE, shape |-> cs, invoked |-> {}]

\* this.lastContour().push(...vertices); there is no last contour to push
\* to when no anchor was visited
PushToLastContour(conv, vertices) ==
  IF Len(conv.contours) = 0
    THEN [conv EXCEPT !.failed = TRUE]
    ELSE [conv EXCEPT !.contours[Len(conv.contours)] = @ \o vertices]

\* a visitAnchor that always emits the anchor's own vertex
VisitAnchorNeverOverridden(conv, anchor) ==
  [conv EXCEPT !.contours = Append(@, <<GetEndVertex(conv.shape, anchor)>>)]

VisitAnchor(conv, anchor) ==
  LET next == NextPrimitive(conv.shape, anchor)
  IN IF CanOverrideAnchor(next)
       THEN [conv EXCEPT !.contours =
               Append(@, <<FirstInterpolatedVertex(conv.shape, next)>>)]
       ELSE [conv EXCEPT !.contours =
               Append(@, <<GetEndVertex(conv.shape, anchor)>>)]

\* a visitLineSegment that emits the vertex the segment starts at
VisitLineSegmentPushingStart(conv, lineSegment) ==
  PushToLastContour(conv, <<GetStartVertex(conv.shape, lineSegment)>>)

VisitLineSegment(conv, lineSegment) ==
  PushToLastContour(conv, <<GetEndVertex(conv.shape, lineSegment)>>)

\* shape.vertexToArray(v) for each of the vertices
RECURSIVE VerticesToArrays(_, _, _)
VerticesToArrays(vp, uvp, vertices) ==
  IF Len(vertices) = 0 THEN [threw |-> FALSE, arrays |-> <<>>]
  ELSE LET r == IF Head(vertices) = UndefinedVertex
                  THEN [threw |-> TRUE, array |-> <<>>]
                  ELSE VertexToArray(vp, uvp, Head(vertices))
           rest == VerticesToArrays(vp, uvp, Tail(vertices))
       IN [threw |-> r.threw \/ rest.threw, arrays |-> <<r.array>> \o rest.arrays]

\* the vertices of a curve of numPoints points: the evaluations at
\* t = (i + 1) / numPoints
BezierPoints(vp, uvp, controls, numPoints) ==
  NewArray([i \in 1 .. numPoints |->
     ArrayToVertex(vp, uvp,
       IF Len(controls) = 4
         THEN EvaluateCubicBezier(controls, Quotient(i, numPoints))
         ELSE EvaluateQuadraticBezier(controls, Quotient(i, numPoints))).vertex])

\* a visitBezierSegment that also emits the point at t = 0
VisitBezierSegmentFromStart(conv, vp, uvp, curveDetail, ci, pi) ==
  LET bezierSegment == conv.shape[ci].primitives[pi]
      needed == IF bezierSegment.order = 3 THEN 4 ELSE 3
      Visit(hull, converted, start) ==
        LET measured == [conv EXCEPT !.shape[ci].primitives[pi] = hull.primitive,
                                     !.invoked = @ \cup hull.invoked]
        IN IF \/ Len(conv.contours) = 0 \/ hull.threw \/ converted.threw
              \/ Len(converted.arrays) < needed
             THEN [measured EXCEPT !.failed = TRUE]
             ELSE PushToLastContour(measured,
                    <<start>> \o BezierPoints(vp, uvp,
                                   SubSeq(converted.arrays, 1, needed),
                                   NumPoints(hull.length, curveDetail)))
  IN Visit(HullLength(conv.shape, bezierSegment),
           VerticesToArrays(vp, uvp,
             <<GetStartVertex(conv.shape, bezierSegment)>> \o bezierSegment.vertices),
           GetStartVertex(conv.shape, bezierSegment))

\* visitBezierSegment on the segment at (ci, pi) of the shape
VisitBezierSegment(conv, vp, uvp, curveDetail, ci, pi) ==
  LET bezierSegment == conv.shape[ci].primitives[pi]
      needed == IF bezierSegment.order = 3 THEN 4 ELSE 3
      Visit(hull, numPoints, converted) ==
        LET measured == [conv EXCEPT !.shape[ci].primitives[pi] = hull.primitive,
                                     !.invoked = @ \cup hull.invoked]
        IN IF Len(conv.contours) = 0 \/ hull.threw \/ converted.threw
             THEN [measured EXCEPT !.failed = TRUE]
           ELSE IF numPoints = 0
             THEN measured
           ELSE IF Len(converted.arrays) < needed  \* a control array is undefined
             THEN [measured EXCEPT !.failed = TRUE]
           ELSE PushToLastContour(measured,
                  BezierPoints(vp, uvp, SubSeq(converted.arrays, 1, needed),
                               numPoints))
      Measure(hull) ==
        Visit(hull, NumPoints(hull.length, curveDetail),
              VerticesToArrays(vp, uvp,
                <<GetStartVertex(conv.shape, bezierSegment)>>
                  \o bezierSegment.vertices))
  IN Measure(HullLength(conv.shape, bezierSegment))

\* the passes of the loop over bezierArrays in visitSplineSegment, from
\* pass i on, with the start of the sub-curve of that pass
RECURSIVE SplineCurves(_, _, _, _, _, _, _)
SplineCurves(conv, vp, uvp, curveDetail, bezierArrays, i, startVertex) ==
  IF conv.failed \/ i > Len(bezierArrays) THEN conv
  ELSE LET array == bezierArrays[i]
           bezierControls == <<startVertex>> \o array
           Curve(hull) ==
             LET measured == [conv EXCEPT !.invoked = @ \cup hull.invoked]
             IN IF hull.threw
                  THEN [measured EXCEPT !.failed = TRUE]
                  ELSE SplineCurves(
                         PushToLastContour(measured,
                           BezierPoints(vp, uvp, bezierControls,
                                        NumPoints(hull.length, curveDetail))),
                         vp, uvp, curveDetail, bezierArrays, i + 1, array[3])
       IN Curve(PolylineLength(NewArray(
                  [k \in 1 .. 4 |-> ArrayToVertex(vp, uvp, bezierControls[k]).vertex])))

VisitSplineSegment(conv, vp, uvp, curveDetail, splineSegment) ==
  LET Visit(arrayVertices, startVertex) ==
        IF Len(conv.contours) = 0 \/ arrayVertices.threw \/ startVertex.threw
          THEN [conv EXCEPT !.failed = TRUE]
          ELSE SplineCurves(conv, vp, uvp, curveDetail,
                            CatmullRomToBezier(arrayVertices.arrays,
                                               Num(splineSegment.tightness)),
                            1, startVertex.arrays[1])
  IN Visit(VerticesToArrays(vp, uvp, GetControlPoints(conv.shape, splineSegment)),
           VerticesToArrays(vp, uvp,
             <<FirstInterpolatedVertex(conv.shape, splineSegment)>>))

\* a visitTriangleStrip that adds the strip to the last output contour
VisitTriangleStripAppending(conv, triangleStrip) ==
  IF Len(conv.contours) = 0
    THEN [conv EXCEPT !.contours = <<triangleStrip.vertices>>]
    ELSE [conv EXCEPT !.contours[Len(conv.contours)] = @ \o triangleStrip.vertices]

VisitTriangleStrip(conv, triangleStrip) ==
  [conv EXCEPT !.contours = Append(@, triangleStrip.vertices)]

\* primitive.accept(visitor) for the primitive at (ci, pi) of the shape
PrimitiveAccept(conv, vp, uvp, curveDetail, ci, pi) ==
  LET primitive == conv.shape[ci].primitives[pi]
  IN CASE primitive.type = "Anchor" -> VisitAnchor(conv, primitive)
       [] primitive.type = "LineSegment" -> VisitLineSegment(conv, primitive)
       [] primitive.type = "BezierSegment" ->
            VisitBezierSegment(conv, vp, uvp, curveDetail, ci, pi)
       [] primitive.type = "SplineSegment" ->
            VisitSplineSegment(conv, vp, uvp, curveDetail, primitive)
       [] primitive.type = "TriangleStrip" -> VisitTriangleStrip(conv, primitive)

\* Contour.accept(visitor), from primitive pi on; a visit that throws ends
\* the pass
RECURSIVE ContourAccept(_, _, _, _, _, _)
ContourAccept(conv, vp, uvp, curveDetail, ci, pi) ==
  IF conv.failed \/ pi > Len(conv.shape[ci].primitives) THEN conv
  ELSE ContourAccept(PrimitiveAccept(conv, vp, uvp, curveDetail, ci, pi),
                     vp, uvp, curveDetail, ci, pi + 1)

\* Shape.accept(visitor), from contour ci on
RECURSIVE ShapeAccept(_, _, _, _, _)
ShapeAccept(conv, vp, uvp, curveDetail, ci) ==
  IF conv.failed \/ ci > Len(conv.shape) THEN conv
  ELSE ShapeAccept(ContourAccept(conv, vp, uvp, curveDetail, ci, 1),
                   vp, uvp, curveDetail, ci + 1)

\* shape.accept(new PrimitiveToVerticesConverter({curveDetail})): the output
\* contours, the hull lengths the pass stored in the Bezier segments, and
\* the Vector methods the pass invoked on positions
Accept(curveDetail) ==
  LET Visited(conv) ==
        /\ contours' = conv.shape
        /\ last' = [op |-> "accept", closeMode |-> "none", index |-> Null,
                    failed |-> conv.failed, curveDetail |-> curveDetail,
                    result |-> conv.contours, invoked |-> conv.invoked]
        /\ UNCHANGED <<initialVertexProperties, vertexProperties, bezierOrder, splineProperties, kind,
                       creators, userVertexProperties>>
  IN Visited(ShapeAccept(NewConverter(contours), vertexProperties,
                         userVertexProperties, curveDetail, 1))

\* the detail of a converter built without options
DefaultCurveDetail == Num(1)

\* contours of either kind built with vertex calls only, closed, and
\* converted to vertices
NextPolylines ==
  \/ \E k \in ShapeKinds : BeginShape(k)
  \/ \E k \in ShapeKinds : BeginContour(k)
  \/ \E a \in PositionArguments : Vertex(a[1], a[2])
  \/ \E i \in ContourIndices : EndContour(CLOSE, i)
  \/ EndShape(CLOSE)
  \/ Accept(DefaultCurveDetail)

SpecPolylines == Init /\ [][NextPolylines]_vars

\* the output contours of a converter of default detail for the contours cs
\* of the shape
Converted(cs) ==
  ShapeAccept(NewConverter(cs), vertexProperties, userVertexProperties,
              DefaultCurveDetail, 1).contours

\* the vertices of the primitives, one primitive after the other
RECURSIVE Flatten(_)
Flatten(ps) == IF Len(ps) = 0 THEN <<>> ELSE Head(ps).vertices \o Flatten(Tail(ps))

\* the place in the output of contour ci of cs: contours without primitives
\* give no output
OutputIndex(cs, ci) == Cardinality({k \in 1 .. ci : Len(cs[k].primitives) > 0})

\* the contour holds primitives, none of them flagged isClosing
IsOpen(contour) ==
  /\ Len(contour.primitives) > 0
  /\ \A pi \in 1 .. Len(contour.primitives) : ~contour.primitives[pi].isClosing

\* C25: for a PATH contour built with n >= 1 vertex() calls only, the
\* converter yields one output contour holding the n vertices in call order
\* (the anchor's vertex, then each line segment's end vertex): every vertex
\* call puts its vertex at the end of that output, and a conversion returns
\* it.  Closing the contour with CLOSE gives an output of n + 1 points, the
\* last at the position of the first.
C25_VertexOnlyPathConversion ==
  [][/\ \A ci \in 1 .. Len(contours') :
          (contours'[ci].kind = PATH /\ Len(contours'[ci].primitives) > 0)
          => /\ Len(Converted(contours')) = OutputIndex(contours', Len(contours'))
             /\ Converted(contours')[OutputIndex(contours', ci)]
                  = Flatten(contours'[ci].primitives)
             /\ last'.op = "accept"
                => /\ ~last'.failed
                   /\ last'.result[OutputIndex(contours', ci)]
                        = Flatten(contours'[ci].primitives)
     /\ (last'.op = "vertex" /\ ~last'.failed /\ contours[Len(contours)].kind = PATH)
        => LET n == Len(contours)
               before == IF Len(contours[n].primitives) = 0 THEN <<>>
                         ELSE Converted(contours)[OutputIndex(contours, n)]
           IN Converted(contours')[OutputIndex(contours', n)]
                = Append(before, vertexProperties')
     /\ \A i \in 0 .. Len(contours) - 1 :
          (/\ CloseStep /\ last'.index = i /\ ~last'.failed
           /\ contours[i + 1].kind = PATH /\ IsOpen(contours[i + 1]))
          => LET before == Converted(contours)[OutputIndex(contours, i + 1)]
                 after == Converted(contours')[OutputIndex(contours', i + 1)]
             IN /\ Len(after) = Len(before) + 1
                /\ SubSeq(after, 1, Len(before)) = before
                /\ after[Len(after)].position = after[1].position]_vars

\* a conversion has returned the four points of a closed path of three
\* vertices, the second of them away from the first
C25_Witness ==
  /\ last.op = "accept" /\ ~last.failed
  /\ Len(contours) = 1
  /\ Len(contours[1].primitives) = 4
  /\ contours[1].primitives[4].isClosing
  /\ Len(last.result) = 1
  /\ Len(last.result[1]) = 4
  /\ last.result[1][2].position # last.result[1][1].position
  /\ last.result[1][4].position = last.result[1][1].position
  /\ last.result[1] = Flatten(contours[1].primitives)

\* C28: all vertex() calls made in a TRIANGLE_STRIP contour accumulate in
\* call order in a single TriangleStrip primitive, and the converter's
\* output for that primitive is one output contour holding the same
\* vertices in the same order, none added, dropped or re-sampled.
C28_StripPassthrough ==
  [][/\ \A ci \in 1 .. Len(contours') :
          (contours'[ci].kind = TRIANGLE_STRIP /\ Len(contours'[ci].primitives) > 0)
          => /\ Len(contours'[ci].primitives) = 1
             /\ contours'[ci].primitives[1].type = "TriangleStrip"
             /\ Len(Converted(contours')) = OutputIndex(contours', Len(contours'))
             /\ Converted(contours')[OutputIndex(contours', ci)]
                  = contours'[ci].primitives[1].vertices
             /\ last'.op = "accept"
                => /\ ~last'.failed
                   /\ last'.result[OutputIndex(contours', ci)]
                        = contours'[ci].primitives[1].vertices
     /\ (/\ last'.op = "vertex" /\ ~last'.failed
         /\ contours[Len(contours)].kind = TRIANGLE_STRIP)
        => LET n == Len(contours)
               before == IF Len(contours[n].primitives) = 0 THEN <<>>
                         ELSE contours[n].primitives[1].vertices
           IN contours'[n].primitives[1].vertices
                = Append(before, vertexProperties')]_vars

\* a conversion has returned, after the contour of a path, the three
\* vertices of a strip in the order of the calls
C28_Witness ==
  /\ last.op = "accept" /\ ~last.failed
  /\ Len(contours) = 2
  /\ contours[1].kind = PATH /\ Len(contours[1].primitives) > 0
  /\ contours[2].kind = TRIANGLE_STRIP
  /\ Len(contours[2].primitives) = 1
  /\ Len(contours[2].primitives[1].vertices) = 3
  /\ contours[2].primitives[1].vertices[1].position
       # contours[2].primitives[1].vertices[2].position
  /\ Len(last.result) = 2
  /\ last.result[2] = contours[2].primitives[1].vertices

\* a template of a Vector, an array and a Color, which vertexToArray and
\* arrayToVertex convert both ways
CurveTemplates ==
  [position : {JsVector(Num(0), Num(0), Num(0))},
   textureCoordinates : {JsArray(<<Num(0), Num(0)>>)},
   fill : {SomeColor}]

InitCurves ==
  /\ contours = <<>>
  /\ vertexProperties \in CurveTemplates
  /\ bezierOrder = 3
  /\ splineProperties = [tightness |-> 0, ends |-> INCLUDE]
  /\ kind = "null"
  /\ creators = DefaultCreators
  /\ userVertexProperties = NoUserVertexProperties
  /\ initialVertexProperties = SameObject
  /\ last = NoCall

\* the curveDetail of a converter
CurveDetails == {Num(0), Quotient(1, 2), Num(2)}

\* one path of line and Bezier segments of either order, converted to
\* vertices at differing detail
NextBezierCurves ==
  \/ kind = "null" /\ BeginShape(PATH)
  \/ \E position \in VectorPositions : Vertex(position, Undefined)
  \/ \E position \in VectorPositions : BezierVertex(position, Undefined)
  \/ \E o \in BezierOrders : BezierOrder(o)
  \/ \E curveDetail \in CurveDetails : Accept(curveDetail)

SpecBezierCurves == InitCurves /\ [][NextBezierCurves]_vars

\* the least whole number k >= 1 with k >= length * curveDetail
SampleCount(length, curveDetail) ==
  LET product == Times(length, curveDetail)
      n == Numerator(product)
      d == Denominator(product)
  IN CHOOSE k \in 1 .. n + 1 :
       k * d >= n /\ (k = 1 \/ (k - 1) * d < n)

\* the segment holds as many vertices as its order
IsComplete(p) == p.type = "BezierSegment" => Len(p.vertices) = p.order

\* the number of vertices the converter emits for the primitives in front of
\* primitive pi of a path whose Bezier segments are complete
RECURSIVE EmittedBefore(_, _, _)
EmittedBefore(ps, pi, curveDetail) ==
  IF pi = 1 THEN 0
  ELSE EmittedBefore(ps, pi - 1, curveDetail)
         + (IF ps[pi - 1].type = "BezierSegment"
              THEN SampleCount(HullLength(contours, ps[pi - 1]).length, curveDetail)
              ELSE 1)

\* C27: for a Bezier segment that holds its `order` vertices,
\* visitBezierSegment appends exactly max(1, ceil(hullLength * curveDetail))
\* vertices to the current output contour, the evaluations of the curve at
\* t = (i+1)/count for i = 0..count-1: at least one vertex, t = 0 is not
\* sampled, and the last vertex emitted is the segment's last control
\* vertex.  (After the pass hullLength() returns for each segment the length
\* the pass used.)
C27_BezierSampling ==
  last.op = "accept"
  => \A ci \in ContourRange : \A pi \in PrimitiveRange(ci) :
       LET ps == contours[ci].primitives
           p == ps[pi]
       IN (p.type = "BezierSegment" /\ \A j \in 1 .. pi : IsComplete(ps[j]))
          => LET curveDetail == last.curveDetail
                 count == SampleCount(HullLength(contours, p).length, curveDetail)
                 offset == EmittedBefore(ps, pi, curveDetail)
                 out == last.result[OutputIndex(contours, ci)]
                 controls == VerticesToArrays(vertexProperties, userVertexProperties,
                               <<GetStartVertex(contours, p)>> \o p.vertices).arrays
                 end == p.vertices[Len(p.vertices)]
             IN /\ count >= 1
                /\ Len(out) >= offset + count
                /\ pi = Len(ps) => Len(out) = offset + count
                /\ \A i \in 1 .. count :
                     out[offset + i]
                       = ArrayToVertex(vertexProperties, userVertexProperties,
                           IF p.order = 3
                             THEN EvaluateCubicBezier(controls, Quotient(i, count))
                             ELSE EvaluateQuadraticBezier(controls, Quotient(i, count))
                         ).vertex
                /\ \A key \in DOMAIN end :
                     out[offset + count][key] = end[key]

\* a conversion at curveDetail 1/2 has put two points in the output for a
\* cubic segment with a hull of length 3: a point in between and the
\* segment's last vertex
C27_Witness ==
  /\ last.op = "accept" /\ ~last.failed
  /\ last.curveDetail = Quotient(1, 2)
  /\ Len(contours) = 1
  /\ Len(contours[1].primitives) = 2
  /\ LET p == contours[1].primitives[2]
     IN /\ p.type = "BezierSegment"
        /\ p.order = 3
        /\ Len(p.vertices) = 3
        /\ HullLength(contours, p).length = Num(3)
        /\ Len(last.result[1]) = 3
        /\ last.result[1][2].position = JsVector(Quotient(1, 2), Num(0), Num(0))
        /\ last.result[1][3].position = p.vertices[3].position

\* one path of line and spline segments under the end-modes a caller
\* configures, converted to vertices
NextSplineCurves ==
  \/ kind = "null" /\ BeginShape(PATH)
  \/ \E position \in VectorPositions : Vertex(position, Undefined)
  \/ \E position \in VectorPositions : SplineVertex(position, Undefined)
  \/ \E e \in ConfiguredEndModes : SplineProperty("ends", e)
  \/ Accept(DefaultCurveDetail)

SpecSplineCurves == InitCurves /\ [][NextSplineCurves]_vars

\* C26: visitAnchor opens exactly one new output contour per anchor and
\* puts one vertex in it: the anchor's own vertex, unless the primitive
\* right after the anchor in the same contour is a SplineSegment whose
\* end-mode is EXCLUDE, in which case it is that spline's first own vertex.
C26_AnchorOverride ==
  \A ci \in ContourRange :
    Len(contours[ci].primitives) > 0
    => LET ps == contours[ci].primitives
           anchor == ps[1]
           overridden == /\ Len(ps) > 1
                         /\ ps[2].type = "SplineSegment"
                         /\ ps[2].ends = EXCLUDE
           expected == IF overridden THEN ps[2].vertices[1] ELSE anchor.vertices[1]
       IN /\ anchor.type = "Anchor"
          /\ \A conv \in {NewConverter(contours),
                          [NewConverter(contours) EXCEPT !.contours = <<<<expected>>>>]} :
               VisitAnchor(conv, anchor).contours = Append(conv.contours, <<expected>>)
          /\ last.op = "accept"
             => /\ Len(last.result) >= 1
                /\ last.result[1][1] = expected
                /\ ~last.failed => Len(last.result) = 1

\* a conversion has started its output contour at the first vertex of an
\* EXCLUDE spline, away from the anchor's vertex
C26_Witness ==
  /\ last.op = "accept" /\ ~last.failed
  /\ Len(contours) = 1
  /\ Len(contours[1].primitives) = 2
  /\ contours[1].primitives[2].type = "SplineSegment"
  /\ contours[1].primitives[2].ends = EXCLUDE
  /\ Len(contours[1].primitives[2].vertices) = 3
  /\ contours[1].primitives[2].vertices[1] # contours[1].primitives[1].vertices[1]
  /\ last.result[1][1] = contours[1].primitives[2].vertices[1]

----------------------------------------------------------------------------
(* The warning of a spline that does not start where its predecessor ends *)

\* the spline segment a splineVertex call is about to give its second own
\* vertex to: the last primitive of the last contour, holding one vertex
ReceivesSecondVertex ==
  /\ Len(contours) > 0
  /\ Len(contours[Len(contours)].primitives) >= 2
  /\ LET ps == contours[Len(contours)].primitives
     IN /\ ps[Len(ps)].type = "SplineSegment"
        /\ Len(ps[Len(ps)].vertices) = 1

\* the segment of ReceivesSecondVertex and the primitive before it
Receiver == contours[Len(contours)].primitives[Len(contours[Len(contours)].primitives)]

Predecessor == contours[Len(contours)].primitives[Len(contours[Len(contours)].primitives) - 1]

\* the receiver is in EXCLUDE end-mode, follows a segment, and the position
\* of the call differs from the end position of that segment
Mismatch ==
  /\ ReceivesSecondVertex
  /\ Receiver.ends = EXCLUDE
  /\ IsSegment(Predecessor)
  /\ vertexProperties'.position # GetEndVertex(contours, Predecessor).position

\* C29: a splineVertex call that gives a spline segment in EXCLUDE end-mode
\* which follows another segment its second own vertex, at a position other
\* than the end position of that segment, warns and names both positions;
\* the call does not fail and appends the vertex to the segment as any other
\* call does; and a call warns in no other case
C29_MismatchWarns ==
  [][(last'.op = "splineVertex" /\ Len(contours) > 0 /\ ~last'.failed) =>
       /\ Mismatch =>
            /\ last'.warned
            /\ last'.message =
                 <<vertexProperties'.position,
                   GetEndVertex(contours, Predecessor).position>>
       /\ ReceivesSecondVertex =>
            contours' =
              [contours EXCEPT
                 ![Len(contours)].primitives[Len(contours[Len(contours)].primitives)].vertices =
                    Append(@, vertexProperties')]
       /\ last'.warned => Mismatch]_vars

----------------------------------------------------------------------------
(* The methods of a position the kernel relies on *)

\* C30: no call invokes the distance or the equality method of a position:
\* the calls that could (splineVertex through the check of its warning,
\* accept through the lengths of the control polygons) record the methods
\* they invoked, and the record stays empty
C30_OnlyArrayConversion == "invoked" \in DOMAIN last => last.invoked = {}

----------------------------------------------------------------------------
(* Vertices are fixed at creation *)

\* a call without texture coordinates and a call with them
CreationArguments == {<<"p0", Undefined>>, <<"p1", "t0">>}

\* one PATH contour whose vertices are created between setter calls,
\* vertexProperty calls and closes
NextFixedVertices ==
  \/ kind = "null" /\ BeginShape(PATH)
  \/ \E a \in CreationArguments : Vertex(a[1], a[2]) /\ AttributeBound'
  \/ \E f \in Fills : Fill(f)
  \/ \E data \in PropertyData : VertexProperty("a", data)
  \/ EndShape(CLOSE) /\ AttributeBound'

SpecFixedVertices == Init /\ [][NextFixedVertices]_vars

\* every vertex of the shape is, after the step, where it was and what it was
VerticesKept ==
  \A ci \in 1 .. Len(contours) :
    /\ ci <= Len(contours')
    /\ \A pi \in 1 .. Len(contours[ci].primitives) :
         /\ pi <= Len(contours'[ci].primitives)
         /\ \A vi \in 1 .. Len(contours[ci].primitives[pi].vertices) :
              /\ vi <= Len(contours'[ci].primitives[pi].vertices)
              /\ contours'[ci].primitives[pi].vertices[vi] =
                   contours[ci].primitives[pi].vertices[vi]

\* the vertex a build call added: the last one of the last contour
AddedVertex ==
  LET ps == contours'[Len(contours')].primitives
  IN ps[Len(ps)].vertices[Len(ps[Len(ps)].vertices)]

----------------------------------------------------------------------------
(* Vector: its private array and the arrays array() hands out *)

\* the arrays array() hands out in one run
MaxReturnedArrays == 2

ComponentValues == {1, 2}

\* a Vector and the arrays around it: the heap of arrays, the address of the
\* private #array, and the addresses array() returned
VectorCall(op, heap, returned, component, value) ==
  [op |-> op, closeMode |-> "none", index |-> Null, failed |-> FALSE,
   heap |-> heap, array |-> 1, returned |-> returned,
   component |-> component, value |-> value]

\* new Vector(x, y, z)
NewVector(x, y, z) == VectorCall("new Vector", <<<<x, y, z>>>>, <<>>, 0, 0)

\* an array() that returns the private array itself
ArrayByReference(v) == [heap |-> v.heap, address |-> v.array]

\* array(): a new array holding the elements of the private array
ArrayOfVector(v) ==
  [heap |-> Append(v.heap, v.heap[v.array]), address |-> Len(v.heap) + 1]

\* the setters of x, y and z (components 1, 2 and 3)
SetComponent(v, component, value) ==
  [v.heap EXCEPT ![v.array][component] = value]

InitVector ==
  /\ contours = <<>>
  /\ vertexProperties \in InitialTemplates
  /\ bezierOrder = 3
  /\ splineProperties = [tightness |-> 0, ends |-> INCLUDE]
  /\ kind = "null"
  /\ creators = DefaultCreators
  /\ userVertexProperties = NoUserVertexProperties
  /\ initialVertexProperties = SameObject
  /\ \E x \in ComponentValues, y \in ComponentValues, z \in ComponentValues :
       last = NewVector(x, y, z)

CallVectorArray ==
  /\ Len(last.returned) < MaxReturnedArrays
  /\ LET r == ArrayOfVector(last)
     IN last' = VectorCall("array", r.heap, Append(last.returned, r.address), 0, 0)
  /\ UNCHANGED <<initialVertexProperties, contours, vertexProperties, bezierOrder, splineProperties,
                 kind, creators, userVertexProperties>>

CallVectorSetter(component, value) ==
  /\ last' = VectorCall("set", SetComponent(last, component, value),
                        last.returned, component, value)
  /\ UNCHANGED <<initialVertexProperties, contours, vertexProperties, bezierOrder, splineProperties,
                 kind, creators, userVertexProperties>>

\* array[component - 1] = value on the k-th array that array() returned
MutateReturnedArray(k, component, value) ==
  /\ last' = VectorCall("mutate",
                        [last.heap EXCEPT ![last.returned[k]][component] = value],
                        last.returned, component, value)
  /\ UNCHANGED <<initialVertexProperties, contours, vertexProperties, bezierOrder, splineProperties,
                 kind, creators, userVertexProperties>>

NextVector ==
  \/ CallVectorArray
  \/ \E component \in 1 .. 3, value \in ComponentValues :
       CallVectorSetter(component, value)
  \/ \E k \in 1 .. Len(last.returned), component \in 1 .. 3, value \in ComponentValues :
       MutateReturnedArray(k, component, value)

SpecVector == InitVector /\ [][NextVector]_vars

\* <<x, y, z>> as the getters read them
VectorComponents(v) == v.heap[v.array]

\* C32: array() returns the components in a new array and leaves the vector
\* as it is; a setter changes its own component and nothing else of the
\* vector; assigning to an element of a returned array leaves the vector as
\* it is. So array() always gives the values last given to the constructor
\* or to a setter
C32_ArrayIsCopy ==
  [][/\ last'.op = "array" =>
          /\ VectorComponents(last') = VectorComponents(last)
          /\ last'.heap[last'.returned[Len(last'.returned)]] = VectorComponents(last)
     /\ last'.op = "set" =>
          VectorComponents(last') =
            [VectorComponents(last) EXCEPT ![last'.component] = last'.value]
     /\ last'.op = "mutate" =>
          VectorComponents(last') = VectorComponents(last)]_vars

\* a returned array was given another first element than the vector has,
\* after a setter had changed the vector
C32_Witness ==
  /\ last.op = "mutate"
  /\ Len(last.returned) = 2
  /\ last.heap[last.returned[1]] # VectorComponents(last)
  /\ last.heap[last.returned[2]] # VectorComponents(last)
  /\ last.heap[last.returned[1]] # last.heap[last.returned[2]]

----------------------------------------------------------------------------
(* Closing a contour again *)

\* C33: no contour holds more than one primitive flagged isClosing
C33_ClosedAtMostOnce ==
  \A ci \in 1 .. Len(contours) :
    Cardinality({pi \in 1 .. Len(contours[ci].primitives) :
                   contours[ci].primitives[pi].isClosing}) <= 1

----------------------------------------------------------------------------
(* Bezier segments that are short of vertices *)

\* C34: a BezierSegment holds exactly `order` vertices unless it is the last
\* primitive of the last contour
C34_OnlyLastBezierIncomplete ==
  \A ci \in 1 .. Len(contours) :
    \A pi \in 1 .. Len(contours[ci].primitives) :
      LET p == contours[ci].primitives[pi]
      IN (p.type = "BezierSegment"
            /\ ~(ci = Len(contours) /\ pi = Len(contours[ci].primitives)))
           => Len(p.vertices) = p.order

----------------------------------------------------------------------------
(* The start vertex of a segment *)

\* C35: getStartVertex() of every segment of the shape yields a vertex
C35_StartVertexPresent ==
  \A ci \in 1 .. Len(contours) :
    \A pi \in 1 .. Len(contours[ci].primitives) :
      IsSegment(contours[ci].primitives[pi])
        => GetStartVertex(contours, contours[ci].primitives[pi]) # UndefinedVertex

----------------------------------------------------------------------------
(* The hull length a BezierSegment has stored *)

\* C36: the length hullLength() returns for a BezierSegment of the shape is
\* the polyline length of its start vertex followed by its current vertices
C36_HullLengthIsCurrent ==
  \A ci \in 1 .. Len(contours) :
    \A pi \in 1 .. Len(contours[ci].primitives) :
      LET p == contours[ci].primitives[pi]
      IN (p.type = "BezierSegment" /\ ~HullLength(contours, p).threw)
           => HullLength(contours, p).length
                = PolylineLength(<<GetStartVertex(contours, p)>> \o p.vertices).length

----------------------------------------------------------------------------
(* reset *)

\* a shape that is built, closed, given attribute values and user properties,
\* and reset
MaxResetVertices == 2

ResetBound == TotalVertices(contours) <= MaxResetVertices

NextReset ==
  \/ kind = "null" /\ BeginShape(PATH)
  \/ \E a \in CreationArguments : Vertex(a[1], a[2]) /\ ResetBound'
  \/ \E f \in Fills : Fill(f)
  \/ \E data \in PropertyData : VertexProperty("a", data)
  \/ EndShape(CLOSE) /\ ResetBound'
  \/ Reset

SpecReset == Init /\ [][NextReset]_vars

\* C38: after reset() the shape has no contours, its kind is null, it has no
\* user-registered properties, and its template is the one the constructor
\* was given
C38_ResetRestoresConstruction ==
  [][last'.op = "reset"
       => /\ contours' = <<>>
          /\ kind' = "null"
          /\ userVertexProperties' = NoUserVertexProperties
          /\ vertexProperties' \in InitialTemplates]_vars

----------------------------------------------------------------------------
(* A build call that finds no constructor *)

\* the step is a build call that threw
FailedBuildStep ==
  /\ last'.op \in {"vertex", "bezierVertex", "splineVertex"}
  /\ last'.failed

\* C37: a build call that fails leaves the contours and the attribute
\* template as they were
C37_FailedBuildChangesNothing ==
  [][FailedBuildStep
       => /\ contours' = contours
          /\ vertexProperties' = vertexProperties]_vars

----------------------------------------------------------------------------
(* A closed spline, converted *)

\* one path of an anchor and spline vertices, closed when the spline is the
\* only segment of the contour, and converted to vertices
NextClosedSpline ==
  \/ kind = "null" /\ BeginShape(PATH)
  \/ \E position \in VectorPositions : Vertex(position, Undefined)
  \/ \E position \in VectorPositions : SplineVertex(position, Undefined)
  \/ \E e \in ConfiguredEndModes : SplineProperty("ends", e)
  \/ Len(contours) = 1 /\ IsAnchorAndSpline(contours[1]) /\ EndContour(CLOSE, 0)
  \/ Accept(DefaultCurveDetail)

SpecClosedSpline == InitCurves /\ [][NextClosedSpline]_vars

\* a conversion has visited a contour of an anchor and one spline segment
\* that a close has joined to the anchor
ClosedSplineConverted ==
  /\ last.op = "accept"
  /\ Len(contours) = 1
  /\ IsAnchorAndSpline(contours[1])
  /\ contours[1].primitives[2].ends = JOIN

\* the sub-curves of the spline segment p
SubCurves(p) ==
  CatmullRomToBezier(
    VerticesToArrays(vertexProperties, userVertexProperties,
                     GetControlPoints(contours, p)).arrays,
    Num(p.tightness))

\* C39: the conversion of a closed contour of an anchor and one spline
\* segment with vertices v1..vn yields one output contour that starts with
\* the anchor's vertex and runs through n + 1 cubic sub-curves, which end in
\* turn at v1, ..., vn and at the anchor: the last output vertex is the
\* anchor's vertex
C39_ClosedSplineLoop ==
  ClosedSplineConverted =>
    LET anchorVertex == contours[1].primitives[1].vertices[1]
        spline == contours[1].primitives[2]
        n == Len(spline.vertices)
        ends == spline.vertices \o <<anchorVertex>>
        Loop(curves, out) ==
          /\ out[1] = anchorVertex
          /\ Len(curves) = n + 1
          /\ \A k \in 1 .. n + 1 :
               curves[k][3]
                 = VertexToArray(vertexProperties, userVertexProperties, ends[k]).array
          /\ \E at \in [1 .. n + 1 -> 2 .. Len(out)] :
               /\ at[n + 1] = Len(out)
               /\ \A k \in 1 .. n : at[k] < at[k + 1]
               /\ \A k \in 1 .. n + 1 : out[at[k]] = ends[k]
          /\ \A key \in DOMAIN anchorVertex :
               out[Len(out)][key] = anchorVertex[key]
    IN /\ ~last.failed
       /\ Len(last.result) = 1
       /\ Loop(SubCurves(spline), last.result[1])

\* a conversion has returned the loop of a closed spline through two vertices
\* away from the anchor and from each other
C39_Witness ==
  /\ ClosedSplineConverted
  /\ ~last.failed
  /\ Len(contours[1].primitives[2].vertices) = 2
  /\ contours[1].primitives[2].vertices[1].position
       # contours[1].primitives[1].vertices[1].position
  /\ contours[1].primitives[2].vertices[2].position
       # contours[1].primitives[2].vertices[1].position
  /\ Len(last.result[1]) >= 4
  /\ last.result[1][Len(last.result[1])] = contours[1].primitives[1].vertices[1]

====
